---- MODULE Spec2Model ----
(***************************************************************************)
(* The gateway's JWT validator (pkg/jwt, given in LLM_GUIDELINES.md):      *)
(* Validator.ValidateToken, Validator.refreshKeys, jwkToRSAPublicKey.      *)
(* Each goroutine calling ValidateToken is a process; the steps between    *)
(* two accesses of shared state (v.keys, v.lastFetch, v.mu) or of the      *)
(* JWKS endpoint are one action.                                           *)
(***************************************************************************)
EXTENDS Integers, Sequences, FiniteSets, TLC

\* ------------------------------------------------------------------ bounds
\* The clock runs from 0 to MaxTime (unit: one hour).
MaxTime == 2
\* The longest role list of a token's realm_access.
MaxRoles == 3
\* The number of LogEntry values producers hand to the Log Pipeline.
MaxEntries == 5

\* ------------------------------------------------------- program constants
\* `1*time.Hour`, in hours.
RefreshInterval == 1
\* time.Time{} (the zero value lastFetch holds after NewValidator); it lies
\* farther in the past than any interval.
ZeroTime == -1

\* ------------------------------------------------------------------ strings
\* A Go string is the sequence of its bytes.
CertsSuffix == <<"/","p","r","o","t","o","c","o","l","/","o","p","e","n","i","d","-","c","o","n","n","e","c","t","/","c","e","r","t","s">>
RealmsInfix == <<"/","r","e","a","l","m","s","/">>
ProviderBase == <<"h","t","t","p",":","/","/","k","c">>
Realm == <<"s","v","e","d","p","r","i","n","t">>

\* The issuer the identity provider puts in the tokens of the realm.
RealmIssuer == ProviderBase \o RealmsInfix \o Realm
\* KEYCLOAK_JWKS_URL as the deployment guides give it:
\* <provider>/realms/<realm>/protocol/openid-connect/certs.
DocumentedJwksURL == RealmIssuer \o CertsSuffix
\* A JWKS URL made of the provider base and the certs suffix alone.
BaseJwksURL == ProviderBase \o CertsSuffix
JwksURLOptions == {DocumentedJwksURL, BaseJwksURL}
\* A JWKS URL shorter than the certs suffix ("http://kc/certs"): non-empty,
\* so Config.validate accepts it.
ShortJwksURL == ProviderBase \o <<"/","c","e","r","t","s">>

\* The slice bound len(v.jwksURL)-len(suffix) is negative for a shorter URL:
\* the slice expression panics (slice bounds out of range).
SliceInRange(url) == Len(url) - Len(CertsSuffix) >= 0

\* v.jwksURL[:len(v.jwksURL)-len("/protocol/openid-connect/certs")]
TrimCerts(url) == SubSeq(url, 1, Len(url) - Len(CertsSuffix))
\* fmt.Sprintf("%s/realms/%s", <trimmed url>, v.realm)
ExpectedIssuer(url, realm) == TrimCerts(url) \o RealmsInfix \o realm

\* ------------------------------------------------------------------ base64
B64Alphabet == <<"A","B","C","D","E","F","G","H","I","J","K","L","M","N","O","P","Q","R","S","T","U","V","W","X","Y","Z","a","b","c","d","e","f","g","h","i","j","k","l","m","n","o","p","q","r","s","t","u","v","w","x","y","z","0","1","2","3","4","5","6","7","8","9","-","_">>
IsB64Char(c) == \E i \in 1..Len(B64Alphabet) : B64Alphabet[i] = c
Sextet(c) == (CHOOSE i \in 1..Len(B64Alphabet) : B64Alphabet[i] = c) - 1

\* base64.RawURLEncoding.DecodeString fails on a character outside the
\* alphabet (padding included) and on a lone trailing character.
B64Valid(s) == (\A i \in 1..Len(s) : IsB64Char(s[i])) /\ Len(s) % 4 # 1

RECURSIVE B64Bytes(_)
\* The decoded bytes of a valid string: 4 characters give 3 bytes, a tail of
\* 3 gives 2 and a tail of 2 gives 1 (the spare low bits are dropped).
B64Bytes(s) ==
    IF Len(s) < 2 THEN <<>>
    ELSE IF Len(s) = 2 THEN
        LET v == Sextet(s[1]) * 64 + Sextet(s[2]) IN << v \div 16 >>
    ELSE IF Len(s) = 3 THEN
        LET v == (Sextet(s[1]) * 64 + Sextet(s[2])) * 64 + Sextet(s[3])
        IN  << v \div 1024, (v \div 4) % 256 >>
    ELSE
        LET v == ((Sextet(s[1]) * 64 + Sextet(s[2])) * 64 + Sextet(s[3])) * 64
                 + Sextet(s[4])
        IN  << v \div 65536, (v \div 256) % 256, v % 256 >>
            \o B64Bytes(SubSeq(s, 5, Len(s)))

RECURSIVE BigEndian(_)
\* new(big.Int).SetBytes(b)
BigEndian(b) ==
    IF b = <<>> THEN 0
    ELSE BigEndian(SubSeq(b, 1, Len(b) - 1)) * 256 + b[Len(b)]

\* ------------------------------------------------------------------- keys
\* int(e.Int64()): the low 64 bits of the magnitude taken as a signed 64-bit
\* integer, given by its 8 bytes, most significant first (two's complement).
Int64(b) ==
    LET padded == [i \in 1..8 |-> 0] \o b
    IN  SubSeq(padded, Len(padded) - 7, Len(padded))
NoKey == [N |-> 0, E |-> Int64(<<>>)]
\* As if only the modulus had to decode.
JwkConvertible_ModulusOnly(jwk) == B64Valid(jwk.n)
\* jwkToRSAPublicKey: the conversion fails when the modulus or the exponent
\* does not decode.
JwkConvertible(jwk) == B64Valid(jwk.n) /\ B64Valid(jwk.e)
JwkToRSAPublicKey(jwk) ==
    [N |-> BigEndian(B64Bytes(jwk.n)), E |-> Int64(B64Bytes(jwk.e))]

\* The keys the identity provider may publish.
JwkA == [kid |-> "A", kty |-> "RSA", n |-> <<"o","Q">>, e |-> <<"A","Q","A","B">>]
JwkB == [kid |-> "B", kty |-> "RSA", n |-> <<"s","w">>, e |-> <<"A","Q","A","B">>]
JwkC == [kid |-> "C", kty |-> "RSA", n |-> <<"x","Q">>, e |-> <<"A","Q","A","B">>]
JwkEC == [kid |-> "E", kty |-> "EC", n |-> <<>>, e |-> <<>>]
JwkBad == [kid |-> "D", kty |-> "RSA", n |-> <<"o","Q","=","=">>, e |-> <<"A","Q","A","B">>]
\* An exponent with a lone trailing character.
JwkBadExponent == [kid |-> "F", kty |-> "RSA", n |-> <<"x","Q">>, e |-> <<"A","Q","A","B","A">>]
\* Exponents of 8 bytes with the top bit set (2^63 + 1) and of 9 bytes
\* (2^64 + 1), and the usual 65537 written with a leading zero byte.
JwkWide == [kid |-> "G", kty |-> "RSA", n |-> <<"o","Q">>, e |-> <<"g","A","A","A","A","A","A","A","A","A","E">>]
JwkWider == [kid |-> "H", kty |-> "RSA", n |-> <<"s","w">>, e |-> <<"A","Q","A","A","A","A","A","A","A","A","A","B">>]
JwkPadded == [kid |-> "I", kty |-> "RSA", n |-> <<"x","Q">>, e |-> <<"A","A","E","A","A","Q">>]

\* The bodies a 200 response of the JWKS endpoint may carry ("keys": [...]).
JwksAB == <<JwkA, JwkB>>
JwksC == <<JwkC>>
JwksNone == <<JwkEC>>
JwksMixed == <<JwkEC, JwkC>>
JwksBad == <<JwkB, JwkBad>>
JwksOptions == {JwksAB, JwksC, JwksNone, JwksMixed, JwksBad}

EmptyKeys == [k \in {} |-> NoKey]

PubA == JwkToRSAPublicKey(JwkA)
PubB == JwkToRSAPublicKey(JwkB)
PubC == JwkToRSAPublicKey(JwkC)
\* A key pair of an attacker, never published by the provider.
PubForged == [N |-> 7, E |-> Int64(<<1, 0, 1>>)]

\* ------------------------------------------------------------------ tokens
\* A token is what jwt.ParseWithClaims reads from the token string:
\*   malformed  the string is not three base64url segments of JSON
\*   alg, kid   header fields (kid = NoKid when the header has none)
\*   sig        the public key under which the signature verifies
\*   exp, nbf   the set holding the claim's time, empty when the claim is absent
\*   iss, sub   registered claims
NoKid == "<none>"
FarFuture == MaxTime + 1
RsaToken(kid, sig, exp, nbf, iss) ==
    [malformed |-> FALSE, alg |-> "RS256", kid |-> kid, sig |-> sig,
     exp |-> exp, nbf |-> nbf, iss |-> iss, sub |-> "user-1"]

\* What the validator of a given configuration expects as issuer.
DoubledIssuer == ExpectedIssuer(DocumentedJwksURL, Realm)

TokA == RsaToken("A", PubA, {FarFuture}, {}, RealmIssuer)
TokB == RsaToken("B", PubB, {FarFuture}, {0}, RealmIssuer)
TokC == RsaToken("C", PubC, {FarFuture}, {}, RealmIssuer)
TokZ == RsaToken("Z", PubForged, {FarFuture}, {}, RealmIssuer)
TokAForged == RsaToken("A", PubForged, {FarFuture}, {}, RealmIssuer)
TokAExpired == RsaToken("A", PubA, {0}, {}, RealmIssuer)
TokAExpiredForged == RsaToken("A", PubForged, {0}, {}, RealmIssuer)
TokAExpiring == RsaToken("A", PubA, {1}, {}, RealmIssuer)
TokANoExp == RsaToken("A", PubA, {}, {}, RealmIssuer)
TokANotYet == RsaToken("A", PubA, {FarFuture}, {FarFuture}, RealmIssuer)
TokAOtherIssuer == RsaToken("A", PubA, {FarFuture}, {}, RealmIssuer \o <<"x">>)
TokAPrefixedIssuer == RsaToken("A", PubA, {FarFuture}, {}, <<"x">> \o RealmIssuer)
TokADoubled == RsaToken("A", PubA, {FarFuture}, {}, DoubledIssuer)
TokCDoubled == RsaToken("C", PubC, {FarFuture}, {}, DoubledIssuer)
TokNoKid == RsaToken(NoKid, PubA, {FarFuture}, {}, RealmIssuer)
\* Algorithm substitution: an HMAC token naming a published RSA key.
TokHS == [TokA EXCEPT !.alg = "HS256"]
TokHSExpired == [TokAExpired EXCEPT !.alg = "HS256"]
TokHSZ == [TokZ EXCEPT !.alg = "HS256"]
TokMalformed == [TokA EXCEPT !.malformed = TRUE]

AllTokens ==
    {TokA, TokB, TokC, TokZ, TokAForged, TokAExpired, TokAExpiredForged,
     TokAExpiring, TokANoExp, TokANotYet, TokAOtherIssuer,
     TokAPrefixedIssuer, TokADoubled,
     TokCDoubled, TokNoKid, TokHS, TokHSExpired, TokHSZ, TokMalformed}
\* The tokens of the concurrent specification.
ConcTokens == {TokA, TokC, TokAForged}

\* As if the key function did not check the signing method.
IsRSAMethod_Any(alg) == TRUE
\* *jwt.SigningMethodRSA: the RS256, RS384 and RS512 methods.
IsRSAMethod(alg) == alg \in {"RS256", "RS384", "RS512"}
\* As if the signature were not verified.
VerifySignature_Skipped(t, k) == TRUE
\* As if the registered claims were validated before the signature, so that
\* an expired token never got to a failing signature check.
VerifySignature_AfterClaims(t, k) == t.sig = k \/ t.exp = {0}
\* token.Method.Verify(text, token.Signature, key)
VerifySignature(t, k) == t.sig = k
\* As if exp were not validated.
ClaimsErrors_NoExpiry(t, at) ==
    IF \E n \in t.nbf : at < n THEN {"NotYetValid"} ELSE {}
\* The registered-claims validator of jwt.ParseWithClaims: exp, when present,
\* must lie after now; nbf, when present, must not.
ClaimsErrors(t, at) ==
    (IF \E e \in t.exp : ~(at < e) THEN {"Expired"} ELSE {})
    \cup (IF \E n \in t.nbf : at < n THEN {"NotYetValid"} ELSE {})

RECURSIVE HasPrefix(_, _)
\* s starts with prefix.
HasPrefix(s, prefix) ==
    IF prefix = <<>> THEN TRUE
    ELSE IF s = <<>> THEN FALSE
    ELSE Head(s) = Head(prefix) /\ HasPrefix(Tail(s), Tail(prefix))
\* As if the issuer only had to start with the expected one.
IssuerMatches_Prefix(iss, expected) == HasPrefix(iss, expected)
\* claims.Issuer != expectedIssuer: Go string comparison, byte by byte.
IssuerMatches(iss, expected) == iss = expected

\* -------------------------------------------------------------- role claims
\* A decoded JSON value (interface{}): a string, a number, null or an array
\* of values.
JsonString(s) == [type |-> "string", val |-> s, items |-> <<>>]
JsonNumber(n) == [type |-> "number", val |-> n, items |-> <<>>]
JsonNull == [type |-> "null", val |-> "", items |-> <<>>]
JsonArray(l) == [type |-> "array", val |-> "", items |-> l]
\* c.RealmAccess, a map[string]interface{}: nil when the token carries no
\* realm_access, else the members of the JSON object.
NoEntries == [k \in {} |-> JsonNull]
NilAccess == [isNil |-> TRUE, entries |-> NoEntries]
Access(entries) == [isNil |-> FALSE, entries |-> entries]

\* As if the elements of the role list were not asserted to be strings.
IsString_Any(v) == TRUE
\* roleStr, ok := r.(string)
IsString(v) == v.type = "string"
RECURSIVE RangeRoles(_, _)
\* for _, r := range roles: true at the first string element equal to role.
RangeRoles(roles, r) ==
    IF roles = <<>> THEN FALSE
    ELSE IF IsString(Head(roles)) /\ Head(roles).val = r THEN TRUE
    ELSE RangeRoles(Tail(roles), r)
\* KeycloakClaims.HasRealmRole
HasRealmRole(ra, r) ==
    IF ra.isNil THEN FALSE
    ELSE IF "roles" \notin DOMAIN ra.entries THEN FALSE
    ELSE IF ra.entries["roles"].type # "array" THEN FALSE
    ELSE RangeRoles(ra.entries["roles"].items, r)

\* The realm_access values of the tokens the gate is asked about.
RoleItems == {JsonString("admin"), JsonString("user"), JsonNumber("7")}
RoleLists == UNION {[1..n -> RoleItems] : n \in 0..MaxRoles}
RealmAccessOptions ==
    {NilAccess, Access(NoEntries),
     Access([k \in {"account"} |-> JsonArray(<<JsonString("admin")>>)])}
    \cup {Access([k \in {"roles"} |-> v]) :
             v \in {JsonString("admin"), JsonNull}
                   \cup {JsonArray(l) : l \in RoleLists}}
AskedRoles == {"admin", "user", "guest", "7"}
NoRole == ""

\* ------------------------------------------------------------ configuration
\* The process environment: the variables NewServer and config.Load read for
\* the gateway, and the worker count of the logging pool, a setting of the
\* configuration surface that neither of them reads.
EnvOptions ==
    [PORT : {"", "9000"},
     DATABASE_URL : {"", "postgres://db/gateway"},
     KEYCLOAK_JWKS_URL : {"", "http://kc/protocol/openid-connect/certs",
                          "http://kc/realms/svedprint/protocol/openid-connect/certs"},
     LOG_WORKERS : {"", "0", "5"}]
\* getEnv(key, defaultValue)
GetEnv(value, defaultValue) == IF value # "" THEN value ELSE defaultValue
NoError == "<nil>"
NoConfig == [ServiceName |-> "", Port |-> "", DatabaseURL |-> "", KeycloakJWKSURL |-> ""]
\* The Config that config.Load builds, before validation (the fields the
\* gateway's validation and startup read).
LoadedConfig(serviceName, e) ==
    [ServiceName |-> serviceName,
     Port |-> GetEnv(e.PORT, "8080"),
     DatabaseURL |-> GetEnv(e.DATABASE_URL, ""),
     KeycloakJWKSURL |-> GetEnv(e.KEYCLOAK_JWKS_URL, "")]
\* Config.validate
Validate(c) ==
    IF c.ServiceName = "" THEN "service name is required"
    ELSE IF c.ServiceName = "gateway" THEN
        IF c.DatabaseURL = "" THEN "DATABASE_URL is required for gateway service"
        ELSE IF c.KeycloakJWKSURL = "" THEN "KEYCLOAK_JWKS_URL is required for gateway service"
        ELSE NoError
    ELSE IF c.ServiceName \in {"svedprint", "svedprint-admin"} THEN
        IF c.DatabaseURL = "" THEN "DATABASE_URL is required for service" ELSE NoError
    ELSE IF c.ServiceName = "svedprint-print" THEN NoError
    ELSE "unknown service name"

\* ----------------------------------------------------------------- requests
\* The requests a client sends: the Authorization header carries no token, a
\* token the provider never signed, or a valid one.
Requests ==
    [method : {"GET", "POST"},
     path : {"/health", "/health/", "/api/svedprint/schools", "/api/admin/users"},
     bearer : {"none", "invalid", "valid"}]
NoExchange == [req |-> [method |-> "", path |-> "", bearer |-> "none"], status |-> 0, forwarded |-> FALSE]
\* The status gin answers with: the matched route's handler (200), the
\* trailing-slash redirect (301 for GET, 307 otherwise), or 404.
Respond(rs, req) ==
    LET k == req.method \o " " \o req.path IN
    IF k \in rs THEN 200
    ELSE IF \E r \in rs : r \o "/" = k \/ k \o "/" = r
         THEN (IF req.method = "GET" THEN 301 ELSE 307)
         ELSE 404

\* ------------------------------------------------------------- log pipeline
\* Queue capacity N, batch-size threshold and write retry count of the
\* configuration surface, and the fixed pool of workers.
QueueCap == 2
BatchSize == 2
MaxRetries == 2
Workers == {"w1", "w2"}
IdleWorker == [batch |-> << >>, writing |-> FALSE, attempts |-> 0]
\* The queue is at capacity.
Full_Never(q) == FALSE
Full(q) == Len(q) >= QueueCap
\* New entries are accepted until the cancellation signal.
Accepting_Always(l) == TRUE
Accepting(l) == l = "running"
\* A failed write has used up the retries.
Exhausted_AtOnce(attempts) == TRUE
Exhausted(attempts) == attempts >= MaxRetries
\* The entries of a batch or of the queue.
Entries_First(b) == {b[i] : i \in {j \in 1..Len(b) : j <= 1}}
Entries(b) == {b[i] : i \in 1..Len(b)}

\* -------------------------------------------------------------------- redis
Callers == {"c1", "c2"}
\* c.ttl, the TTL the client was built with (in clock ticks; 0: no expiry).
ClientTTL == 2
NoEntry == [val |-> << >>, ttl |-> 0]
\* json.Marshal of a Go value: the exported fields become the JSON text; a
\* value json cannot encode (a channel, a NaN) gives an error.
Marshal(v) ==
    IF v.kind = "chan" THEN [err |-> "unsupported type", data |-> << >>]
    ELSE [err |-> "nil", data |-> <<"name", v.name>>]
\* json.Unmarshal of a text into the target: the fields the text names are
\* set, the others keep what the target held; a text that is not the JSON
\* of such a value gives an error and leaves the target as it was.
Unmarshal(data, target) ==
    IF Len(data) = 2 /\ data[1] = "name"
    THEN [err |-> "nil", val |-> [target EXCEPT !.name = data[2]]]
    ELSE [err |-> "invalid character", val |-> target]
\* The caller's target before the call: the zero value of its type.
ZeroTarget == [kind |-> "struct", name |-> "", secret |-> 0]
\* What fn returns: a value (with an unexported field json does not see),
\* a value json cannot encode, or an error.
LoaderResults ==
    [err : {"nil"}, val : [kind : {"struct"}, name : {"a", "b"}, secret : {0, 1}]]
    \cup {[err |-> "nil", val |-> [kind |-> "chan", name |-> "", secret |-> 0]],
          [err |-> "db error", val |-> ZeroTarget]}
\* What the key holds before the calls: nothing, a cached value, or a text
\* that is not the JSON of a value.
CacheOptions ==
    {NoEntry, [val |-> <<"name", "a">>, ttl |-> ClientTTL], [val |-> <<"garbage">>, ttl |-> 0]}
NoCall == [pc |-> "idle", target |-> ZeroTarget, getErr |-> "nil", fnCalls |-> 0,
           result |-> ZeroTarget, setErr |-> "nil", err |-> "nil"]
\* if err == nil { return nil }: whether GetOrSet goes on to fn.
NeedsLoad_Always(getErr) == TRUE
\* As if only ErrCacheMiss led to fn and any other error of Get ended the call.
NeedsLoad_OnMissOnly(getErr) == getErr = "ErrCacheMiss"
NeedsLoad(getErr) == getErr # "nil"

\* ------------------------------------------------------------------- state
Procs == {"p1", "p2"}
SeqProcs == {"p1"}
None == "none"

VARIABLES
    jwksURL,    \* v.jwksURL (set by NewValidator, never changed)
    keys,       \* v.keys: kid -> public key
    lastFetch,  \* v.lastFetch
    writer,     \* the process holding v.mu for writing, or None
    readers,    \* the processes holding v.mu for reading
    now,        \* the clock
    served,     \* the key list the JWKS endpoint currently serves
    pc,         \* where each process is in ValidateToken / refreshKeys
    tok,        \* the token of the call
    phase,      \* which refresh the call is in: "interval" or "miss"
    jwks,       \* refreshKeys' local jwks.Keys
    idx,        \* position of the range loop over jwks.Keys
    newKeys,    \* refreshKeys' local newKeys
    key,        \* the key function's local key
    result,     \* what ValidateToken returns
    stats,      \* per call: fetches issued and lookups made
    realmAccess, \* c.RealmAccess of the claims HasRealmRole is called on
    role,       \* HasRealmRole's argument
    hasRole,    \* what HasRealmRole returned
    osEnv,      \* the environment of the gateway process
    boot,       \* where the gateway's main is
    cfg,        \* NewServer's cfg
    routes,     \* the routes registered on the gin engine
    exchange,   \* the last request the engine handled, and its response
    queue,      \* the Log Pipeline's bounded queue of LogEntry values
    offered,    \* how many entries producers have handed to enqueue
    dropped,    \* the drop counter
    lost,       \* the entries discarded so far (what the counter should count)
    workers,    \* per worker: its batch, whether it is writing, failed attempts of its last write
    sink,       \* per entry: how many times the sink has inserted it
    lifecycle,  \* "running", "stopping" (cancelled), "draining" (deadline passed), "stopped"
    cache,      \* what Redis holds under the key: NoEntry or a value with its TTL
    callers     \* per GetOrSet call: position, target, err of Get, fn's result, returned error

vars == <<jwksURL, keys, lastFetch, writer, readers, now, served, pc, tok, phase, jwks, idx, newKeys, key, result, stats, realmAccess, role, hasRole, osEnv, boot, cfg, routes, exchange, queue, offered, dropped, lost, workers, sink, lifecycle, cache, callers>>
\* The claims the role gate is asked about.
gate == <<realmAccess, role, hasRole>>
\* The gateway's startup.
startup == <<osEnv, boot, cfg, routes, exchange>>
\* The Log Pipeline.
pipeline == <<queue, offered, dropped, lost, workers, sink, lifecycle>>
\* The Redis key and the GetOrSet calls on it.
redis == <<cache, callers>>
shared == <<keys, lastFetch, writer, readers>>
env == <<now, served>>
locals == <<tok, phase, jwks, idx, newKeys, key, result, stats>>

NoToken == [TokMalformed EXCEPT !.sub = ""]
NoResult == [ok |-> FALSE, sub |-> "", errs |-> {}]
NoStats == [interval |-> 0, miss |-> 0, lookups |-> 0]

validator == <<jwksURL, keys, lastFetch, writer, readers, now, served, pc, tok, phase, jwks, idx, newKeys, key, result, stats>>

\* No claims are at the role gate.
GateInit(accesses) ==
    /\ realmAccess \in accesses
    /\ role = NoRole
    /\ hasRole = FALSE
\* The gateway process at the start of main.
StartupInit(envs) ==
    /\ osEnv \in envs
    /\ boot = "main"
    /\ cfg = NoConfig
    /\ routes = {}
    /\ exchange = NoExchange
\* A running pipeline: empty queue, idle workers, nothing written.
PipelineInit ==
    /\ queue = << >>
    /\ offered = 0
    /\ dropped = 0
    /\ lost = {}
    /\ workers = [w \in Workers |-> IdleWorker]
    /\ sink = [e \in 1..MaxEntries |-> 0]
    /\ lifecycle = "running"
\* No GetOrSet call has started.
RedisInit(contents) ==
    /\ cache \in contents
    /\ callers = [p \in Callers |-> NoCall]
DefaultEnv == [PORT |-> "", DATABASE_URL |-> "", KEYCLOAK_JWKS_URL |-> "", LOG_WORKERS |-> ""]

\* NewValidator: an empty key map and the zero lastFetch.
ValidatorInit(P, urls, bodies) ==
    /\ jwksURL \in urls
    /\ keys = EmptyKeys
    /\ lastFetch = ZeroTime
    /\ writer = None
    /\ readers = {}
    /\ now = 0
    /\ served \in bodies
    /\ pc = [p \in P |-> "idle"]
    /\ tok = [p \in P |-> NoToken]
    /\ phase = [p \in P |-> None]
    /\ jwks = [p \in P |-> <<>>]
    /\ idx = [p \in P |-> 0]
    /\ newKeys = [p \in P |-> EmptyKeys]
    /\ key = [p \in P |-> NoKey]
    /\ result = [p \in P |-> NoResult]
    /\ stats = [p \in P |-> NoStats]
\* The validator alone: nothing at the role gate, the gateway not started.
InitWith(P, urls, bodies) ==
    /\ ValidatorInit(P, urls, bodies)
    /\ GateInit({NilAccess})
    /\ StartupInit({DefaultEnv})
    /\ PipelineInit
    /\ RedisInit({NoEntry})

\* ------------------------------------------------------------- ValidateToken
\* The end of a call: ValidateToken returns (nil, err) or (claims, nil).
Fail(p, e) ==
    /\ pc' = [pc EXCEPT ![p] = "done"]
    /\ result' = [result EXCEPT ![p] = [ok |-> FALSE, sub |-> "", errs |-> e]]
Succeed(p) ==
    /\ pc' = [pc EXCEPT ![p] = "done"]
    /\ result' = [result EXCEPT ![p] = [ok |-> TRUE, sub |-> tok[p].sub, errs |-> {}]]

\* As if the zero lastFetch of a new Validator did not count as elapsed.
IntervalElapsed_NotAtConstruction(last, at) == last # ZeroTime /\ at - last > RefreshInterval
\* time.Since(v.lastFetch) > 1*time.Hour
IntervalElapsed(last, at) == last = ZeroTime \/ at - last > RefreshInterval
\* What the unlocked read of v.lastFetch in ValidateToken can make of the
\* comparison: v.lastFetch is read without v.mu, so a read that overlaps the
\* write in refreshKeys is a data race and may see a torn time.Time.
SinceLastFetchExceeds ==
    IF writer # None THEN BOOLEAN ELSE {IntervalElapsed(lastFetch, now)}

\* A request calls ValidateToken(ctx, tokenString); the call starts with the
\* interval check.
Call(p, t) ==
    /\ pc[p] = "idle"
    /\ tok' = [tok EXCEPT ![p] = t]
    /\ \E stale \in SinceLastFetchExceeds :
         IF stale
         THEN /\ pc' = [pc EXCEPT ![p] = "fetch"]
              /\ phase' = [phase EXCEPT ![p] = "interval"]
              /\ stats' = [stats EXCEPT ![p].interval = 1]
         ELSE /\ pc' = [pc EXCEPT ![p] = "parse"]
              /\ UNCHANGED <<phase, stats>>
    /\ UNCHANGED <<gate, startup, pipeline, redis, jwksURL, shared, env, jwks, idx, newKeys, key, result>>

\* refreshKeys returned an error: the interval refresh ends the call with
\* "failed to refresh JWKS keys", the on-miss refresh makes the key function
\* fail with "key not found and refresh failed".
RefreshFailed(p) ==
    Fail(p, IF phase[p] = "interval" THEN {"RefreshFailed"}
            ELSE {"KeyNotFoundRefreshFailed"})

FetchOutcomes == {"ok", "neterr", "status", "badjson", "timeout"}
\* As if the HTTP client had no Timeout and the context no deadline.
RequestBounded_Never == FALSE
\* http.Client{Timeout: 10 * time.Second}, and ctx's deadline when it has
\* one: a request that has not ended by then is aborted, Do (or the read of
\* the body) returns an error.
RequestBounded == TRUE
\* refreshKeys up to the decoded response: the request fails (network
\* error), it is aborted at its time limit, the status is not 200, the body
\* is not JSON, or the body is decoded into jwks.
Fetch(p, out) ==
    /\ pc[p] = "fetch"
    /\ out = "timeout" => RequestBounded
    /\ IF out = "ok"
       THEN /\ jwks' = [jwks EXCEPT ![p] = served]
            /\ idx' = [idx EXCEPT ![p] = 1]
            /\ newKeys' = [newKeys EXCEPT ![p] = EmptyKeys]
            /\ pc' = [pc EXCEPT ![p] = "convert"]
            /\ UNCHANGED result
       ELSE /\ RefreshFailed(p)
            /\ UNCHANGED <<jwks, idx, newKeys>>
    /\ UNCHANGED <<gate, startup, pipeline, redis, jwksURL, shared, env, tok, phase, key, stats>>

\* newKeys[jwk.Kid] = key
Insert(m, kid, k) == [x \in DOMAIN m \cup {kid} |-> IF x = kid THEN k ELSE m[x]]
\* As if newKeys were v.keys itself (newKeys := v.keys): every insertion shows
\* in the shared map at once.
SharedWhileBuilding_InPlace(current, built) == built
\* newKeys is a map of its own (make), so v.keys is untouched while it is built.
SharedWhileBuilding(current, built) == current

\* As if keys of every type were converted.
Unsupported_None(jwk) == FALSE
\* jwk.Kty != "RSA": the key is skipped (continue).
Unsupported(jwk) == jwk.kty # "RSA"

\* One iteration of the range loop over jwks.Keys, or its end.
Convert(p) ==
    /\ pc[p] = "convert"
    /\ IF idx[p] > Len(jwks[p])
       THEN /\ pc' = [pc EXCEPT ![p] = "lock"]
            /\ UNCHANGED <<idx, newKeys, keys, result>>
       ELSE LET jwk == jwks[p][idx[p]] IN
            IF Unsupported(jwk)
            THEN /\ idx' = [idx EXCEPT ![p] = idx[p] + 1]
                 /\ UNCHANGED <<pc, newKeys, keys, result>>
            ELSE IF ~JwkConvertible(jwk)
            THEN /\ RefreshFailed(p)
                 /\ UNCHANGED <<idx, newKeys, keys>>
            ELSE /\ newKeys' = [newKeys EXCEPT
                                  ![p] = Insert(newKeys[p], jwk.kid, JwkToRSAPublicKey(jwk))]
                 /\ keys' = SharedWhileBuilding(keys, newKeys'[p])
                 /\ idx' = [idx EXCEPT ![p] = idx[p] + 1]
                 /\ UNCHANGED <<pc, result>>
    /\ UNCHANGED <<gate, startup, pipeline, redis, jwksURL, lastFetch, writer, readers, env, tok, phase,
                   jwks, key, stats>>

\* As if the swap took no lock.
CanLock_Always(w, r) == TRUE
\* v.mu.Lock() returns once no goroutine holds the lock.
CanLock(w, r) == w = None /\ r = {}
Lock(p) ==
    /\ pc[p] = "lock"
    /\ CanLock(writer, readers)
    /\ writer' = p
    /\ pc' = [pc EXCEPT ![p] = "setkeys"]
    /\ UNCHANGED <<gate, startup, pipeline, redis, jwksURL, keys, lastFetch, readers, env, locals>>

\* As if the fetched keys were merged into the current map.
SwapKeys_Merge(current, built) ==
    [k \in DOMAIN current \cup DOMAIN built |->
        IF k \in DOMAIN built THEN built[k] ELSE current[k]]
\* v.keys = newKeys
SwapKeys(current, built) == built
SetKeys(p) ==
    /\ pc[p] = "setkeys"
    /\ keys' = SwapKeys(keys, newKeys[p])
    /\ pc' = [pc EXCEPT ![p] = "setlast"]
    /\ UNCHANGED <<gate, startup, pipeline, redis, jwksURL, lastFetch, writer, readers, env, locals>>

\* As if refreshKeys returned without v.mu.Unlock().
Unlock_Missing(w) == w
\* v.mu.Unlock(): no goroutine holds the lock for writing.
Unlock(w) == None
\* v.lastFetch = time.Now(); v.mu.Unlock(); return nil. The interval
\* refresh goes on to parse the token, the on-miss refresh to the second
\* lookup.
SetLastFetch(p) ==
    /\ pc[p] = "setlast"
    /\ lastFetch' = now
    /\ writer' = Unlock(writer)
    /\ pc' = [pc EXCEPT ![p] = IF phase[p] = "interval" THEN "parse" ELSE "rlock2"]
    /\ UNCHANGED <<gate, startup, pipeline, redis, jwksURL, keys, readers, env, locals>>

\* jwt.ParseWithClaims up to the key lookup: the token is split and decoded,
\* then the key function checks the signing method and reads the kid.
Parse(p) ==
    /\ pc[p] = "parse"
    /\ IF tok[p].malformed THEN Fail(p, {"Malformed"})
       ELSE IF ~IsRSAMethod(tok[p].alg) THEN Fail(p, {"UnsupportedAlgorithm"})
       ELSE IF tok[p].kid = NoKid THEN Fail(p, {"MissingKid"})
       ELSE pc' = [pc EXCEPT ![p] = "rlock1"] /\ UNCHANGED result
    /\ UNCHANGED <<gate, startup, pipeline, redis, jwksURL, shared, env, tok, phase, jwks, idx, newKeys,
                   key, stats>>

\* v.mu.RLock() returns once no goroutine holds the lock for writing.
\* (A writer waiting in Lock also holds new readers back; leaving that out
\* only adds interleavings.)
RLock(p) ==
    /\ pc[p] \in {"rlock1", "rlock2"}
    /\ writer = None
    /\ readers' = readers \cup {p}
    /\ pc' = [pc EXCEPT ![p] = IF pc[p] = "rlock1" THEN "lookup1" ELSE "lookup2"]
    /\ UNCHANGED <<gate, startup, pipeline, redis, jwksURL, keys, lastFetch, writer, env, locals>>

\* As if a second miss refreshed again instead of giving up.
AfterSecondMiss_Retry == "fetch"
\* Where the key function goes when the second lookup misses too:
\* "key with kid %s not found".
AfterSecondMiss == "unknown"

\* key, exists := v.keys[kid]; v.mu.RUnlock(); and the branch on exists.
Lookup(p) ==
    /\ pc[p] \in {"lookup1", "lookup2"}
    /\ readers' = readers \ {p}
    /\ LET kid == tok[p].kid
           exists == kid \in DOMAIN keys
           next == IF exists THEN "verify"
                   ELSE IF pc[p] = "lookup1" THEN "fetch"
                   ELSE AfterSecondMiss
       IN  /\ key' = [key EXCEPT ![p] = IF exists THEN keys[kid] ELSE NoKey]
           /\ stats' = [stats EXCEPT
                          ![p].lookups = @ + 1,
                          ![p].miss = IF next = "fetch" THEN @ + 1 ELSE @]
           /\ phase' = [phase EXCEPT ![p] = IF next = "fetch" THEN "miss" ELSE @]
           /\ IF next = "unknown"
              THEN Fail(p, {"UnknownKey"})
              ELSE pc' = [pc EXCEPT ![p] = next] /\ UNCHANGED result
    /\ UNCHANGED <<gate, startup, pipeline, redis, jwksURL, keys, lastFetch, writer, env, tok, jwks, idx,
                   newKeys>>

\* As if the key were read from v.keys again when the signature is verified.
ReturnedKey_Reread(local, current, kid) ==
    IF kid \in DOMAIN current THEN current[kid] ELSE NoKey
\* return key, nil: the key function hands jwt.ParseWithClaims the key its
\* lookup read, whatever v.keys has become since.
ReturnedKey(local, current, kid) == local

\* The rest of jwt.ParseWithClaims and of ValidateToken: the signature is
\* verified with the key the key function returned, then the registered
\* claims are validated, then the issuer is compared.
Verify(p) ==
    /\ pc[p] = "verify"
    /\ IF ~VerifySignature(tok[p], ReturnedKey(key[p], keys, tok[p].kid))
       THEN Fail(p, {"InvalidSignature"})
       ELSE IF ClaimsErrors(tok[p], now) # {} THEN Fail(p, ClaimsErrors(tok[p], now))
       ELSE IF ~SliceInRange(jwksURL)
       THEN \* a run-time panic unwinds ValidateToken: the call returns nothing
            pc' = [pc EXCEPT ![p] = "panic"] /\ UNCHANGED result
       ELSE IF ~IssuerMatches(tok[p].iss, ExpectedIssuer(jwksURL, Realm))
       THEN Fail(p, {"InvalidIssuer"})
       ELSE Succeed(p)
    /\ UNCHANGED <<gate, startup, pipeline, redis, jwksURL, shared, env, tok, phase, jwks, idx, newKeys,
                   key, stats>>

\* The caller takes the result; the goroutine is free for the next request.
Return(p) ==
    /\ pc[p] = "done"
    /\ pc' = [pc EXCEPT ![p] = "idle"]
    /\ tok' = [tok EXCEPT ![p] = NoToken]
    /\ phase' = [phase EXCEPT ![p] = None]
    /\ jwks' = [jwks EXCEPT ![p] = <<>>]
    /\ idx' = [idx EXCEPT ![p] = 0]
    /\ newKeys' = [newKeys EXCEPT ![p] = EmptyKeys]
    /\ key' = [key EXCEPT ![p] = NoKey]
    /\ result' = [result EXCEPT ![p] = NoResult]
    /\ stats' = [stats EXCEPT ![p] = NoStats]
    /\ UNCHANGED <<gate, startup, pipeline, redis, jwksURL, shared, env>>

\* -------------------------------------------------------------- environment
\* An hour passes.
Tick ==
    /\ now < MaxTime
    /\ now' = now + 1
    /\ UNCHANGED <<gate, startup, pipeline, redis, jwksURL, shared, served, pc, locals>>

\* The identity provider rotates its keys: the endpoint goes on to serve the
\* next key list of the plan.
Rotate(plan) ==
    /\ \E i \in 1..(Len(plan) - 1) : served = plan[i] /\ served' = plan[i + 1]
    /\ UNCHANGED <<gate, startup, pipeline, redis, jwksURL, shared, now, pc, locals>>

\* ---------------------------------------------------------------- role gate
\* A handler asks claims.HasRealmRole(r).
AskRole(r) ==
    /\ role = NoRole
    /\ role' = r
    /\ hasRole' = HasRealmRole(realmAccess, r)
    /\ UNCHANGED <<realmAccess, startup, pipeline, redis, validator>>

\* ------------------------------------------------------------------ startup
\* NewServer up to the panic: config.Load("gateway") builds the Config and
\* validates it; on an error NewServer panics, else it has its cfg.
LoadConfig ==
    /\ boot = "main"
    /\ LET c == LoadedConfig("gateway", osEnv) IN
         IF Validate(c) # NoError
         THEN boot' = "panicked" /\ UNCHANGED cfg
         ELSE boot' = "loaded" /\ cfg' = c
    /\ UNCHANGED <<osEnv, routes, exchange, gate, pipeline, redis, validator>>
\* setupSqlc: database.RunMigrations(dbConfig.URL, migrationPath) returns,
\* or ends the process.
RunMigrations(ok) ==
    /\ boot = "loaded"
    /\ boot' = IF ok THEN "migrated" ELSE "exited"
    /\ UNCHANGED <<osEnv, cfg, routes, exchange, gate, pipeline, redis, validator>>
SetupDatabasePool_BeforeMigrations(ok) ==
    /\ boot = "loaded"
    /\ boot' = IF ok THEN "pooled" ELSE "exited"
    /\ UNCHANGED <<osEnv, cfg, routes, exchange, gate, pipeline, redis, validator>>
\* setupSqlc: database.SetupDatabasePool returns the pool, or log.Fatalf ends
\* the process when the pool cannot be created or pinged.
SetupDatabasePool(ok) ==
    /\ boot = "migrated"
    /\ boot' = IF ok THEN "pooled" ELSE "exited"
    /\ UNCHANGED <<osEnv, cfg, routes, exchange, gate, pipeline, redis, validator>>
\* The routes setupRoutes registers.
RegisteredRoutes_OpenProxy == {"GET /health", "GET /api/svedprint/schools"}
RegisteredRoutes == {"GET /health"}
\* gin.Default(), setupMiddleware, setupRoutes: GET /health is registered
\* and NewServer returns the server.
SetupRoutes ==
    /\ boot = "pooled"
    /\ routes' = routes \cup RegisteredRoutes
    /\ boot' = "built"
    /\ UNCHANGED <<osEnv, cfg, exchange, gate, pipeline, redis, validator>>
\* server.Run(): the engine listens on addr and accepts requests.
Run ==
    /\ boot = "built"
    /\ boot' = "listening"
    /\ UNCHANGED <<osEnv, cfg, routes, exchange, gate, pipeline, redis, validator>>
\* The engine handles one request: the route's handler answers 200, a path
\* that differs from a route of the same method by a trailing slash is
\* redirected, every other request gets gin's 404. No handler forwards.
Handle(req) ==
    /\ boot = "listening"
    /\ exchange' = [req |-> req, status |-> Respond(routes, req), forwarded |-> FALSE]
    /\ UNCHANGED <<osEnv, boot, cfg, routes, gate, pipeline, redis, validator>>

\* ------------------------------------------------------------- log pipeline
\* A producer's non-blocking enqueue of the next LogEntry: it is queued, or
\* (queue full, or cancelled) dropped and counted.
Enqueue ==
    /\ offered < MaxEntries
    /\ offered' = offered + 1
    /\ IF Accepting(lifecycle) /\ ~Full(queue)
       THEN queue' = Append(queue, offered + 1) /\ UNCHANGED <<dropped, lost>>
       ELSE dropped' = dropped + 1 /\ lost' = lost \cup {offered + 1} /\ UNCHANGED queue
    /\ UNCHANGED <<workers, sink, lifecycle, gate, startup, redis, validator>>
\* A worker pulls an entry into the batch it accumulates; at the batch-size
\* threshold it starts its one batched write.
Pull(w) ==
    /\ lifecycle \in {"running", "stopping"}
    /\ queue # << >>
    /\ ~workers[w].writing /\ Len(workers[w].batch) < BatchSize
    /\ workers' = [workers EXCEPT ![w].batch = Append(@, Head(queue)),
                                   ![w].writing = Len(workers[w].batch) + 1 >= BatchSize,
                                   ![w].attempts = 0]
    /\ queue' = Tail(queue)
    /\ UNCHANGED <<offered, dropped, lost, sink, lifecycle, gate, startup, redis, validator>>
\* The flush interval ends before the size threshold is reached: the worker
\* starts its one batched write of what it has.
Flush(w) ==
    /\ ~workers[w].writing /\ workers[w].batch # << >>
    /\ workers' = [workers EXCEPT ![w].writing = TRUE, ![w].attempts = 0]
    /\ UNCHANGED <<queue, offered, dropped, lost, sink, lifecycle, gate, startup, redis, validator>>
\* One attempt of the batched write returns: the sink inserted the batch,
\* or it failed and the worker retries after the backoff, or (retries used
\* up) drops the batch's entries and counts them.
Write(w, ok) ==
    /\ workers[w].writing
    /\ LET b == workers[w].batch IN
       IF ok THEN
            /\ sink' = [e \in DOMAIN sink |-> IF e \in Entries(b) THEN sink[e] + 1 ELSE sink[e]]
            /\ workers' = [workers EXCEPT ![w].batch = << >>, ![w].writing = FALSE]
            /\ UNCHANGED <<dropped, lost>>
       ELSE IF ~Exhausted(workers[w].attempts) THEN
            /\ workers' = [workers EXCEPT ![w].attempts = @ + 1]
            /\ UNCHANGED <<sink, dropped, lost>>
       ELSE /\ dropped' = dropped + Len(b)
            /\ lost' = lost \cup Entries(b)
            /\ workers' = [workers EXCEPT ![w].batch = << >>, ![w].writing = FALSE]
            /\ UNCHANGED sink
    /\ UNCHANGED <<queue, offered, lifecycle, gate, startup, redis, validator>>
\* The cancellation signal.
Cancel ==
    /\ lifecycle = "running"
    /\ lifecycle' = "stopping"
    /\ UNCHANGED <<queue, offered, dropped, lost, workers, sink, gate, startup, redis, validator>>
\* The grace-period deadline: what is still queued is dropped and counted.
Deadline ==
    /\ lifecycle = "stopping"
    /\ lifecycle' = "draining"
    /\ dropped' = dropped + Len(queue)
    /\ lost' = lost \cup Entries(queue)
    /\ queue' = << >>
    /\ UNCHANGED <<offered, workers, sink, gate, startup, redis, validator>>
\* Shutdown returns once every worker has finished its in-flight batch.
Shutdown ==
    /\ lifecycle = "draining"
    /\ \A w \in Workers : workers[w].batch = << >>
    /\ lifecycle' = "stopped"
    /\ UNCHANGED <<queue, offered, dropped, lost, workers, sink, gate, startup, redis, validator>>

\* ----------------------------------------------------------------- GetOrSet
\* A caller calls c.GetOrSet(ctx, key, target, fn) with a zero target.
GetOrSet(p) ==
    /\ callers[p].pc = "idle"
    /\ callers' = [callers EXCEPT ![p].pc = "get"]
    /\ UNCHANGED <<cache, gate, startup, pipeline, validator>>
\* c.Get: the Redis GET answers (redis.Nil for a missing key, else the text,
\* which is unmarshalled into target) or fails; GetOrSet returns nil on a
\* nil error and goes on to fn otherwise.
Get(p, answered) ==
    /\ callers[p].pc = "get"
    /\ LET c == callers[p]
           u == Unmarshal(cache.val, c.target)
           e == IF ~answered THEN "failed to get from Redis"
                ELSE IF cache = NoEntry THEN "ErrCacheMiss"
                ELSE IF u.err # "nil" THEN "failed to unmarshal Redis value"
                ELSE "nil"
       IN callers' = [callers EXCEPT ![p] =
             [c EXCEPT !.getErr = e,
                       !.target = IF e = "nil" THEN u.val ELSE c.target,
                       !.pc = IF NeedsLoad(e) THEN "fn" ELSE "done"]]
    /\ UNCHANGED <<cache, gate, startup, pipeline, validator>>
\* As if fn's error were not checked before the result is cached and copied.
Fn_ErrorNotChecked(p, r) ==
    /\ callers[p].pc = "fn"
    /\ callers' = [callers EXCEPT ![p] =
          [callers[p] EXCEPT !.fnCalls = @ + 1, !.result = r.val, !.err = r.err,
                             !.pc = "set"]]
    /\ UNCHANGED <<cache, gate, startup, pipeline, validator>>
\* result, err := fn(); an error is returned to the caller.
Fn(p, r) ==
    /\ callers[p].pc = "fn"
    /\ callers' = [callers EXCEPT ![p] =
          [callers[p] EXCEPT !.fnCalls = @ + 1, !.result = r.val, !.err = r.err,
                             !.pc = IF r.err = "nil" THEN "set" ELSE "done"]]
    /\ UNCHANGED <<cache, gate, startup, pipeline, validator>>
\* As if the write were SET NX: a value already under the key is kept.
Set_IfAbsent(p, accepted) ==
    /\ callers[p].pc = "set"
    /\ LET c == callers[p]
           m == Marshal(c.result)
           u == Unmarshal(m.data, c.target)
           written == m.err = "nil" /\ accepted /\ cache = NoEntry
       IN /\ cache' = IF written THEN [val |-> m.data, ttl |-> ClientTTL] ELSE cache
          /\ callers' = [callers EXCEPT ![p] =
                [c EXCEPT !.setErr = IF m.err # "nil" THEN "failed to marshal value"
                                     ELSE IF ~accepted THEN "failed to set in Redis" ELSE "nil",
                          !.err = IF m.err # "nil" THEN "failed to marshal result"
                                  ELSE IF u.err # "nil" THEN "failed to unmarshal result" ELSE "nil",
                          !.target = IF m.err = "nil" THEN u.val ELSE c.target,
                          !.pc = "done"]]
    /\ UNCHANGED <<gate, startup, pipeline, validator>>
\* _ = c.Set(ctx, key, result): SetWithTTL with c.ttl marshals the result
\* and writes it, and its error is dropped; then result is marshalled and
\* unmarshalled into target, and GetOrSet returns.
Set(p, accepted) ==
    /\ callers[p].pc = "set"
    /\ LET c == callers[p]
           m == Marshal(c.result)
           u == Unmarshal(m.data, c.target)
           written == m.err = "nil" /\ accepted
       IN /\ cache' = IF written THEN [val |-> m.data, ttl |-> ClientTTL] ELSE cache
          /\ callers' = [callers EXCEPT ![p] =
                [c EXCEPT !.setErr = IF m.err # "nil" THEN "failed to marshal value"
                                     ELSE IF ~accepted THEN "failed to set in Redis" ELSE "nil",
                          !.err = IF m.err # "nil" THEN "failed to marshal result"
                                  ELSE IF u.err # "nil" THEN "failed to unmarshal result" ELSE "nil",
                          !.target = IF m.err = "nil" THEN u.val ELSE c.target,
                          !.pc = "done"]]
    /\ UNCHANGED <<gate, startup, pipeline, validator>>
\* Redis expires a key whose TTL has run out.
Expire ==
    /\ cache.ttl > 0
    /\ cache' = NoEntry
    /\ UNCHANGED <<callers, gate, startup, pipeline, validator>>

\* ------------------------------------------------------------ specification
\* The key lists the endpoint serves in turn.
RotationPlan == <<JwksAB, JwksC, JwksNone>>
Init == InitWith(Procs, {BaseJwksURL}, {RotationPlan[1]})

Next ==
    \/ \E p \in Procs, t \in ConcTokens : Call(p, t)
    \/ \E p \in Procs, out \in FetchOutcomes : Fetch(p, out)
    \/ \E p \in Procs : Convert(p)
    \/ \E p \in Procs : Lock(p)
    \/ \E p \in Procs : SetKeys(p)
    \/ \E p \in Procs : SetLastFetch(p)
    \/ \E p \in Procs : Parse(p)
    \/ \E p \in Procs : RLock(p)
    \/ \E p \in Procs : Lookup(p)
    \/ \E p \in Procs : Verify(p)
    \/ \E p \in Procs : Return(p)
    \/ Tick
    \/ Rotate(RotationPlan)

Spec == Init /\ [][Next]_vars

\* One request at a time, every token, either form of the JWKS URL; among
\* the key lists served is one that mixes an EC key with an RSA key.
SeqPlan == <<JwksAB, JwksMixed, JwksNone>>
InitSeq == InitWith(SeqProcs, JwksURLOptions, {SeqPlan[1]})

NextSeq ==
    \/ \E p \in SeqProcs, t \in AllTokens : Call(p, t)
    \/ \E p \in SeqProcs, out \in FetchOutcomes : Fetch(p, out)
    \/ \E p \in SeqProcs : Convert(p)
    \/ \E p \in SeqProcs : Lock(p)
    \/ \E p \in SeqProcs : SetKeys(p)
    \/ \E p \in SeqProcs : SetLastFetch(p)
    \/ \E p \in SeqProcs : Parse(p)
    \/ \E p \in SeqProcs : RLock(p)
    \/ \E p \in SeqProcs : Lookup(p)
    \/ \E p \in SeqProcs : Verify(p)
    \/ \E p \in SeqProcs : Return(p)
    \/ Tick
    \/ Rotate(SeqPlan)

SpecSeq == InitSeq /\ [][NextSeq]_vars

\* One request at a time against an endpoint that comes to serve key lists
\* with an undecodable modulus or exponent and with exponents wider than 63
\* bits, under a JWKS URL of the usual form or a short one.
EdgePlan ==
    <<JwksAB, JwksBad, <<JwkC, JwkBadExponent, JwkA>>, <<JwkWide, JwkWider, JwkPadded>> >>
InitEdge == InitWith(SeqProcs, {BaseJwksURL, ShortJwksURL}, {EdgePlan[1]})

NextEdge ==
    \/ \E p \in SeqProcs, t \in {TokA, TokB, TokZ, TokAForged, TokAExpired, TokAOtherIssuer} :
          Call(p, t)
    \/ \E p \in SeqProcs, out \in FetchOutcomes : Fetch(p, out)
    \/ \E p \in SeqProcs : Convert(p)
    \/ \E p \in SeqProcs : Lock(p)
    \/ \E p \in SeqProcs : SetKeys(p)
    \/ \E p \in SeqProcs : SetLastFetch(p)
    \/ \E p \in SeqProcs : Parse(p)
    \/ \E p \in SeqProcs : RLock(p)
    \/ \E p \in SeqProcs : Lookup(p)
    \/ \E p \in SeqProcs : Verify(p)
    \/ \E p \in SeqProcs : Return(p)
    \/ Tick
    \/ Rotate(EdgePlan)

SpecEdge == InitEdge /\ [][NextEdge]_vars

\* The key rotation scenario: one request at a time, a reachable endpoint,
\* keys A and B served first and key C alone after the rotation, which
\* happens between two requests.
ScenarioPlan == <<JwksAB, JwksC>>
ScenarioTokens == {TokA, TokB, TokC}
InitRotation == InitWith(SeqProcs, {BaseJwksURL}, {ScenarioPlan[1]})

NextRotation ==
    \/ \E p \in SeqProcs, t \in ScenarioTokens : Call(p, t)
    \/ \E p \in SeqProcs : Fetch(p, "ok")
    \/ \E p \in SeqProcs : Convert(p)
    \/ \E p \in SeqProcs : Lock(p)
    \/ \E p \in SeqProcs : SetKeys(p)
    \/ \E p \in SeqProcs : SetLastFetch(p)
    \/ \E p \in SeqProcs : Parse(p)
    \/ \E p \in SeqProcs : RLock(p)
    \/ \E p \in SeqProcs : Lookup(p)
    \/ \E p \in SeqProcs : Verify(p)
    \/ \E p \in SeqProcs : Return(p)
    \/ Tick
    \/ (\A p \in SeqProcs : pc[p] = "idle") /\ Rotate(ScenarioPlan)

SpecRotation == InitRotation /\ [][NextRotation]_vars

\* The role gate: claims of every shape, one question each.
InitRoles ==
    /\ ValidatorInit(SeqProcs, {BaseJwksURL}, {JwksAB})
    /\ GateInit(RealmAccessOptions)
    /\ StartupInit({DefaultEnv})
    /\ PipelineInit
    /\ RedisInit({NoEntry})
NextRoles == \E r \in AskedRoles : AskRole(r)
SpecRoles == InitRoles /\ [][NextRoles]_vars

\* The gateway's startup under every environment.
InitStartup ==
    /\ ValidatorInit(SeqProcs, {BaseJwksURL}, {JwksAB})
    /\ GateInit({NilAccess})
    /\ StartupInit(EnvOptions)
    /\ PipelineInit
    /\ RedisInit({NoEntry})
NextStartup ==
    \/ LoadConfig
    \/ \E ok \in BOOLEAN : RunMigrations(ok)
    \/ \E ok \in BOOLEAN : SetupDatabasePool(ok)
    \/ SetupRoutes
    \/ Run
    \/ \E req \in Requests : Handle(req)
SpecStartup == InitStartup /\ [][NextStartup]_vars

\* Two concurrent callers, an endpoint that answers or does not answer
\* within the request's time limit, and fair scheduling: a goroutine that
\* can take a step takes it; one waiting in Lock or RLock gets the lock
\* when it is free again and again (sync.RWMutex lets neither readers nor
\* writers starve); a request that is not answered is ended by its time
\* limit. Nothing makes the endpoint answer, a caller call or the clock run.
LiveTokens == {TokA, TokZ}
LiveOutcomes == {"ok", "timeout"}
NextLive ==
    \/ \E p \in Procs, t \in LiveTokens : Call(p, t)
    \/ \E p \in Procs, out \in LiveOutcomes : Fetch(p, out)
    \/ \E p \in Procs : Convert(p)
    \/ \E p \in Procs : Lock(p)
    \/ \E p \in Procs : SetKeys(p)
    \/ \E p \in Procs : SetLastFetch(p)
    \/ \E p \in Procs : Parse(p)
    \/ \E p \in Procs : RLock(p)
    \/ \E p \in Procs : Lookup(p)
    \/ \E p \in Procs : Verify(p)
    \/ \E p \in Procs : Return(p)
    \/ Tick
Fairness ==
    \A p \in Procs :
        /\ WF_vars(Fetch(p, "timeout"))
        /\ WF_vars(Convert(p))
        /\ SF_vars(Lock(p))
        /\ WF_vars(SetKeys(p))
        /\ WF_vars(SetLastFetch(p))
        /\ WF_vars(Parse(p))
        /\ SF_vars(RLock(p))
        /\ WF_vars(Lookup(p))
        /\ WF_vars(Verify(p))
SpecLive == Init /\ [][NextLive]_vars /\ Fairness

\* The Log Pipeline with its producers, workers and sink: workers and the
\* sink's answers are scheduled fairly, the deadline timer fires; producers
\* and the cancellation signal are free.
InitPipeline == InitWith(SeqProcs, {BaseJwksURL}, {JwksAB})
NextPipeline ==
    \/ Enqueue
    \/ \E w \in Workers : Pull(w)
    \/ \E w \in Workers : Flush(w)
    \/ \E w \in Workers, ok \in BOOLEAN : Write(w, ok)
    \/ Cancel
    \/ Deadline
    \/ Shutdown
SpecPipeline ==
    /\ InitPipeline /\ [][NextPipeline]_vars
    /\ \A w \in Workers :
          WF_vars(Pull(w)) /\ WF_vars(Flush(w)) /\ WF_vars(\E ok \in BOOLEAN : Write(w, ok))
    /\ WF_vars(Deadline) /\ WF_vars(Shutdown)

\* Two callers of GetOrSet on one key, every loader result, a Redis that
\* answers or fails and expires the key.
InitCache ==
    /\ ValidatorInit(SeqProcs, {BaseJwksURL}, {JwksAB})
    /\ GateInit({NilAccess})
    /\ StartupInit({DefaultEnv})
    /\ PipelineInit
    /\ RedisInit(CacheOptions)
NextCache ==
    \/ \E p \in Callers : GetOrSet(p)
    \/ \E p \in Callers, answered \in BOOLEAN : Get(p, answered)
    \/ \E p \in Callers, r \in LoaderResults : Fn(p, r)
    \/ \E p \in Callers, accepted \in BOOLEAN : Set(p, accepted)
    \/ Expire
SpecCache == InitCache /\ [][NextCache]_vars

\* ------------------------------------------------------------------ claims
AllProcs == DOMAIN pc
\* The step in which p's call of ValidateToken ends.
Finishes(p) == pc[p] # "done" /\ pc'[p] = "done"
\* The step in which p reads v.keys[kid].
LooksUp(p) == pc[p] \in {"lookup1", "lookup2"} /\ pc'[p] # pc[p]
\* The token's signature verifies under the key the store holds for its kid.
SignedByStoredKey(t) == t.kid \in DOMAIN keys /\ VerifySignature(t, keys[t.kid])
WellFormedRsa(t) == ~t.malformed /\ IsRSAMethod(t.alg) /\ t.kid # NoKid

\* C1: a token signed by an RSA key of the Key Store, unexpired, past its
\* not-before and carrying the realm's issuer is accepted, and the claims
\* returned carry its subject.
C1_ValidTokenAccepted ==
    \A p \in AllProcs :
        ( /\ pc[p] = "done"
          /\ WellFormedRsa(tok[p])
          /\ SignedByStoredKey(tok[p])
          /\ ClaimsErrors(tok[p], now) = {}
          /\ tok[p].iss = RealmIssuer )
        => result[p].ok /\ result[p].sub = tok[p].sub

\* The key maps a completed conversion of a response body can give.
RECURSIVE KeyMapOf(_)
KeyMapOf(body) ==
    IF body = <<>> THEN EmptyKeys
    ELSE LET jwk == body[Len(body)]
             rest == KeyMapOf(SubSeq(body, 1, Len(body) - 1))
         IN  IF jwk.kty = "RSA" THEN Insert(rest, jwk.kid, JwkToRSAPublicKey(jwk))
             ELSE rest
CompleteKeyMaps ==
    {EmptyKeys} \cup
    {KeyMapOf(b) : b \in {o \in JwksOptions : \A i \in 1..Len(o) :
                             o[i].kty = "RSA" => JwkConvertible(o[i])}}

\* C2: every key lookup reads a key map that is the whole result of one
\* fetch (or the initial empty map), and no lookup runs while a refresh is
\* between its two assignments.
C2_LookupSeesCompleteKeySet ==
    \A p \in AllProcs :
        pc[p] \in {"lookup1", "lookup2"} => keys \in CompleteKeyMaps /\ writer = None
\* A lookup runs while another call has built half of its new key map.
C2_Witness ==
    \E p, q \in AllProcs :
        /\ pc[p] \in {"lookup1", "lookup2"}
        /\ pc[q] = "convert" /\ idx[q] = 2 /\ Len(jwks[q]) = 2
        /\ newKeys[q] # EmptyKeys /\ keys # EmptyKeys

\* A response whose keys are all of an unsupported type: no valid key.
NoValidKey(body) == \A i \in 1..Len(body) : body[i].kty # "RSA"
\* C3: a refresh that fails (request error, status, malformed body, or a
\* response without any valid key) leaves v.keys as it was and gives the
\* caller an error.
C3_FailedRefreshKeepsKeySet ==
    [][\A p \in AllProcs :
          /\ (pc[p] \in {"fetch", "convert"} /\ pc'[p] = "done")
                => keys' = keys /\ ~result'[p].ok /\ result'[p].errs # {}
          /\ (pc[p] \in {"convert", "lock", "setkeys"} /\ pc'[p] # pc[p]
              /\ NoValidKey(jwks[p]))
                => keys' = keys /\ pc'[p] = "done" /\ result'[p].errs # {}
      ]_vars

\* C4: when the refresh made during a validation fails, a token signed by a
\* key of the key set fetched before is still accepted.
C4_StaleKeysServedOnFetchFailure ==
    \A p \in AllProcs :
        ( /\ pc[p] = "done"
          /\ result[p].errs \cap {"RefreshFailed", "KeyNotFoundRefreshFailed"} # {}
          /\ WellFormedRsa(tok[p])
          /\ SignedByStoredKey(tok[p])
          /\ ClaimsErrors(tok[p], now) = {}
          /\ tok[p].iss = ExpectedIssuer(jwksURL, Realm) )
        => result[p].ok

\* C5: a lookup that misses makes the calling process itself refresh, once;
\* when the lookup after that refresh misses too the call ends with
\* UnknownKey, and no call makes a second on-miss refresh.
C5_OneForcedRefreshPerMiss ==
    [][\A p \in AllProcs :
          /\ (LooksUp(p) /\ pc[p] = "lookup1" /\ tok[p].kid \notin DOMAIN keys)
                => pc'[p] = "fetch" /\ phase'[p] = "miss" /\ stats'[p].miss = 1
          /\ (LooksUp(p) /\ pc[p] = "lookup2" /\ tok[p].kid \notin DOMAIN keys)
                => /\ pc'[p] = "done"
                   /\ result'[p] = [ok |-> FALSE, sub |-> "", errs |-> {"UnknownKey"}]
                   /\ stats'[p].miss = 1
          /\ stats'[p].miss <= 1
      ]_vars
\* A call ended with UnknownKey after its one on-miss refresh, while another
\* call is under way.
C5_Witness ==
    \E p, q \in AllProcs :
        /\ pc[p] = "done" /\ result[p].errs = {"UnknownKey"}
        /\ stats[p].miss = 1 /\ stats[p].lookups = 2
        /\ pc[q] \notin {"idle", "done"}

\* The kids of the RSA keys the endpoint serves now.
ServedKids == {served[i].kid : i \in {j \in 1..Len(served) : served[j].kty = "RSA"}}
\* C6: with A and B served a token signed with A is accepted; once the
\* endpoint serves C alone a token signed with C is accepted after one
\* refresh at most, the on-miss one when its first lookup missed; the key
\* map is then exactly the served one, so a token signed with A ends with
\* UnknownKey after its own on-miss refresh.
C6_KeyRotation ==
    /\ keys \in {EmptyKeys, KeyMapOf(JwksAB), KeyMapOf(JwksC)}
    /\ \A p \in AllProcs :
          pc[p] = "done" =>
            /\ tok[p].kid \in ServedKids =>
                  /\ result[p].ok
                  /\ stats[p].interval + stats[p].miss <= 1
                  /\ stats[p].lookups = 2 => stats[p].miss = 1
                  /\ keys = KeyMapOf(served)
            /\ (tok[p].kid \notin ServedKids /\ tok[p].kid \notin DOMAIN keys) =>
                  /\ result[p].errs = {"UnknownKey"}
                  /\ stats[p].miss = 1
                  /\ keys = KeyMapOf(served)
\* After the rotation the token signed with A ends with UnknownKey: the key
\* map holds C alone.
C6_Witness ==
    \E p \in AllProcs :
        /\ pc[p] = "done" /\ tok[p] = TokA
        /\ result[p].errs = {"UnknownKey"}
        /\ served = JwksC /\ keys = KeyMapOf(JwksC)
        /\ stats[p] = [interval |-> 0, miss |-> 1, lookups |-> 2]

\* now is not before the token's exp.
ExpiredAt(t, at) == \E e \in t.exp : ~(at < e)
\* C7 as stated: an expired token whose key was resolved ends with Expired,
\* whether or not its signature verifies.
C7_ExpiredRegardlessOfSignature ==
    [][\A p \in AllProcs :
          (pc[p] = "verify" /\ Finishes(p) /\ ExpiredAt(tok[p], now))
             => result'[p].errs = {"Expired"}
      ]_vars
\* C7 amended: an expired token is never accepted; with its key resolved
\* it ends with Expired when its signature verifies and with
\* InvalidSignature when it does not.
C7_ExpiredNeverAccepted ==
    [][\A p \in AllProcs :
          (Finishes(p) /\ ExpiredAt(tok[p], now)) =>
             /\ ~result'[p].ok
             /\ pc[p] = "verify" =>
                   result'[p].errs =
                       IF VerifySignature(tok[p], key[p]) THEN {"Expired"}
                       ELSE {"InvalidSignature"}
      ]_vars
C7_Witness ==
    \E p \in AllProcs :
        /\ pc[p] = "done" /\ tok[p] = TokAExpired
        /\ key[p] = PubA /\ result[p].errs = {"Expired"}

NonRsa(t) == ~t.malformed /\ ~(t.alg \in {"RS256", "RS384", "RS512"})
\* C8: a token whose algorithm is not RSA never gets to a key lookup and is
\* never accepted; the key function rejects it with UnsupportedAlgorithm
\* when the token is parsed.
C8_NonRsaRejectedBeforeLookup ==
    [][\A p \in AllProcs :
          NonRsa(tok'[p]) =>
             /\ stats'[p].lookups = 0
             /\ pc'[p] \notin {"rlock1", "lookup1", "rlock2", "lookup2", "verify"}
             /\ ~result'[p].ok
             /\ (pc[p] = "parse" /\ pc'[p] # "parse") =>
                   pc'[p] = "done" /\ result'[p].errs = {"UnsupportedAlgorithm"}
      ]_vars
\* An HMAC token naming a key that is in the store was rejected.
C8_Witness ==
    \E p \in AllProcs :
        /\ pc[p] = "done" /\ tok[p] = TokHS /\ "A" \in DOMAIN keys
        /\ result[p].errs = {"UnsupportedAlgorithm"} /\ stats[p].lookups = 0

\* C9: claims are returned only when the signature verified under the key
\* the call's lookup read from v.keys for the token's kid.
C9_ClaimsOnlyFromVerifiedSignature ==
    [][\A p \in AllProcs :
          /\ LooksUp(p) =>
                key'[p] = IF tok[p].kid \in DOMAIN keys THEN keys[tok[p].kid] ELSE NoKey
          /\ (Finishes(p) /\ result'[p].ok) =>
                /\ pc[p] = "verify"
                /\ key[p] # NoKey
                /\ tok[p].sig = key[p]
      ]_vars
\* One call returned claims while a forged token naming the same kid was
\* rejected.
C9_Witness ==
    \E p, q \in AllProcs :
        /\ pc[p] = "done" /\ result[p].ok /\ result[p].sub = tok[p].sub
        /\ pc[q] = "done" /\ tok[q] = TokAForged
        /\ result[q].errs = {"InvalidSignature"}

Refreshing == {p \in AllProcs : pc[p] \in {"fetch", "convert", "lock", "setkeys", "setlast"}}
Swapping == {p \in AllProcs : pc[p] \in {"setkeys", "setlast"}}
\* C10 as stated: at most one call is inside refreshKeys.
C10_OneRefreshAtATime == Cardinality(Refreshing) <= 1
\* C10 amended: at most one call is inside the swap of refreshKeys, and it
\* holds the write lock alone; fetches and conversions may overlap.
C10_OneSwapAtATime ==
    /\ Cardinality(Swapping) <= 1
    /\ \A p \in AllProcs : p \in Swapping <=> writer = p
    /\ writer # None => readers = {}
\* One call is inside the swap while the other has fetched and waits for the
\* lock.
C10_Witness ==
    \E p, q \in AllProcs :
        /\ pc[p] = "setkeys" /\ writer = p
        /\ pc[q] = "lock" /\ newKeys[q] # EmptyKeys

\* C11: the write lock is held only by a call between v.mu.Lock() and
\* v.mu.Unlock() of refreshKeys, never by one that is fetching, converting
\* or has returned from the refresh; a call waiting in v.mu.RLock() for its
\* lookup is held back only while another call is inside that swap.
C11_LookupNeverWaitsForFetch ==
    /\ writer # None => pc[writer] \in {"setkeys", "setlast"}
    /\ \A p \in AllProcs :
          (pc[p] \in {"rlock1", "rlock2"} /\ ~ENABLED RLock(p)) =>
              \E q \in AllProcs \ {p} : pc[q] \in {"setkeys", "setlast"}
\* One call holds the read lock for its lookup while the other is in the
\* JWKS request.
C11_Witness ==
    \E p, q \in AllProcs :
        /\ pc[p] \in {"lookup1", "lookup2"} /\ p \in readers
        /\ pc[q] = "fetch"

\* C12: v.keys changes only by the assignment of a refresh's own complete
\* map under the write lock; the key a call's lookup returned stays what it
\* is until the call ends, and the signature is verified with that key,
\* whether or not v.keys still holds it.
C12_ResolvedKeySurvivesSwap ==
    [][/\ keys' # keys =>
             \E q \in AllProcs :
                 pc[q] = "setkeys" /\ writer = q /\ keys' = newKeys[q]
       /\ \A p \in AllProcs :
             pc[p] = "verify" =>
                /\ key'[p] = key[p] \/ pc'[p] = "idle"
                /\ Finishes(p) =>
                      (result'[p].errs = {"InvalidSignature"}
                          <=> ~VerifySignature(tok[p], key[p]))
      ]_vars
\* A call was accepted on the key its lookup read although the key map
\* swapped in since holds no key of that kid.
C12_Witness ==
    \E p \in AllProcs :
        /\ pc[p] = "done" /\ result[p].ok
        /\ key[p] = PubA /\ tok[p].kid \notin DOMAIN keys
        /\ keys # EmptyKeys

\* C13: a call refreshes before its lookup exactly when more than the
\* refresh interval has passed since v.lastFetch, and v.lastFetch moves only
\* at the end of a fetch that succeeded, that is, one whose response held a
\* valid key.
C13_RefreshExactlyWhenIntervalElapsed ==
    [][/\ \A p \in AllProcs :
             (pc[p] = "idle" /\ pc'[p] # "idle") =>
                 (pc'[p] = "fetch" <=> IntervalElapsed(lastFetch, now))
       /\ lastFetch' # lastFetch =>
             \E q \in AllProcs :
                 /\ pc[q] = "setlast" /\ pc'[q] # "setlast"
                 /\ lastFetch' = now
                 /\ ~NoValidKey(jwks[q])
      ]_vars

\* C14: a call succeeds only with a token whose issuer is the expected
\* issuer, byte for byte; a token with any other issuer is never accepted,
\* and once its signature and its times have passed it ends with
\* InvalidIssuer.
C14_IssuerMustMatchExactly ==
    [][\A p \in AllProcs :
          /\ (Finishes(p) /\ result'[p].ok) =>
                 tok[p].iss = ExpectedIssuer(jwksURL, Realm)
          /\ (/\ pc[p] = "verify" /\ Finishes(p)
              /\ VerifySignature(tok[p], key[p])
              /\ ClaimsErrors(tok[p], now) = {}
              /\ tok[p].iss # ExpectedIssuer(jwksURL, Realm)) =>
                 result'[p] = [ok |-> FALSE, sub |-> "", errs |-> {"InvalidIssuer"}]
      ]_vars
\* A token whose issuer is the expected one followed by one more character
\* ended with InvalidIssuer.
C14_Witness ==
    \E p \in AllProcs :
        /\ pc[p] = "done" /\ tok[p] = TokAOtherIssuer
        /\ HasPrefix(tok[p].iss, ExpectedIssuer(jwksURL, Realm))
        /\ key[p] = PubA /\ result[p].errs = {"InvalidIssuer"}

\* C15: with KEYCLOAK_JWKS_URL in its documented form the expected issuer
\* is <provider base>/realms/<realm>, so no token carrying the realm's
\* issuer ends with InvalidIssuer.
C15_RealmTokenPassesIssuerCheck ==
    \A p \in AllProcs :
        ( /\ jwksURL = DocumentedJwksURL
          /\ pc[p] = "done"
          /\ tok[p].iss = RealmIssuer )
        => "InvalidIssuer" \notin result[p].errs

\* C16: a call succeeds only with a token whose exp lies after now and
\* whose nbf is absent or not after now; with the signature verified, the
\* call ends with Expired exactly when exp fails that rule and with
\* NotYetValid exactly when nbf does.
C16_AcceptedOnlyInValidityWindow ==
    [][\A p \in AllProcs :
          /\ (Finishes(p) /\ result'[p].ok) =>
                 /\ \E e \in tok[p].exp : now < e
                 /\ \A n \in tok[p].nbf : ~(now < n)
          /\ (pc[p] = "verify" /\ Finishes(p) /\ VerifySignature(tok[p], key[p])) =>
                 /\ "Expired" \in result'[p].errs <=> ~(\E e \in tok[p].exp : now < e)
                 /\ "NotYetValid" \in result'[p].errs <=> (\E n \in tok[p].nbf : now < n)
      ]_vars

\* The role strings of a realm_access: the string elements of its "roles"
\* array, and none when there is no realm_access, no "roles" member or a
\* "roles" member that is not an array.
RoleStrings(ra) ==
    IF ra.isNil \/ "roles" \notin DOMAIN ra.entries THEN {}
    ELSE LET v == ra.entries["roles"] IN
         IF v.type # "array" THEN {}
         ELSE {v.items[i].val : i \in {j \in 1..Len(v.items) : v.items[j].type = "string"}}
\* C17: HasRealmRole(role) returns a boolean for claims of every shape, and
\* it is true exactly when role is one of the role strings.
C17_HasRealmRoleIsMembership ==
    /\ hasRole \in BOOLEAN
    /\ role # NoRole => (hasRole <=> role \in RoleStrings(realmAccess))
\* The gate was asked for "7" on a role list that holds the number 7 next
\* to role strings, and for a role on claims without a role list.
C17_Witness ==
    /\ role = "7" /\ ~hasRole
    /\ ~realmAccess.isNil /\ "roles" \in DOMAIN realmAccess.entries
    /\ realmAccess.entries["roles"].items = <<JsonString("admin"), JsonNumber("7")>>

\* C18: every call of ValidateToken returns; a request that is not answered
\* within its time limit ends the refresh with an error, and the call with
\* the refresh failure.
C18_EveryCallReturns ==
    /\ \A p \in Procs : (pc[p] # "idle") ~> (pc[p] = "done")
    /\ [][\A p \in Procs :
             (pc[p] = "fetch" /\ pc'[p] # "fetch" /\ pc'[p] # "convert") =>
                 /\ pc'[p] = "done" /\ ~result'[p].ok
                 /\ result'[p].errs \subseteq {"RefreshFailed", "KeyNotFoundRefreshFailed"}
                 /\ result'[p].errs # {}
                 /\ keys' = keys /\ lastFetch' = lastFetch
        ]_vars
\* A call whose on-miss request was ended by the time limit has returned
\* the refresh failure, while the other call is in a request of its own.
C18_Witness ==
    \E p, q \in AllProcs :
        /\ pc[p] = "done" /\ result[p].errs = {"KeyNotFoundRefreshFailed"}
        /\ pc[q] = "fetch"

\* The configuration errors: no JWKS URL, or a worker count of zero.
ConfigError == osEnv.KEYCLOAK_JWKS_URL = "" \/ osEnv.LOG_WORKERS = "0"
RsaKeysOf(body) ==
    LET rsa == {i \in 1..Len(body) : body[i].kty = "RSA"}
        last(kid) == CHOOSE i \in rsa :
                        body[i].kid = kid /\ \A j \in rsa : body[j].kid = kid => j <= i
    IN  [kid \in {body[i].kid : i \in rsa} |-> JwkToRSAPublicKey(body[last(kid)])]
\* C20: the range loop passes over a key whose type is not RSA without
\* ending the refresh; the map assigned to v.keys holds exactly the RSA
\* keys of the response, and the refresh returns nil: its call goes on.
C20_UnsupportedKeysSkipped ==
    [][\A p \in AllProcs :
          /\ (/\ pc[p] = "convert" /\ <<pc'[p], idx'[p]>> # <<pc[p], idx[p]>>
              /\ idx[p] <= Len(jwks[p]) /\ jwks[p][idx[p]].kty # "RSA") =>
                 /\ pc'[p] = "convert" /\ idx'[p] = idx[p] + 1
                 /\ newKeys'[p] = newKeys[p] /\ keys' = keys
          /\ (pc[p] = "setkeys" /\ pc'[p] # "setkeys") =>
                 keys' = RsaKeysOf(jwks[p])
          /\ (pc[p] = "setlast" /\ pc'[p] # "setlast") =>
                 pc'[p] \in {"parse", "rlock2"} /\ result'[p] = NoResult
      ]_vars
\* After a response with an EC key and the RSA key C the key map holds C
\* alone, and the token signed with C was accepted.
C20_Witness ==
    \E p \in AllProcs :
        /\ pc[p] = "done" /\ jwks[p] = JwksMixed /\ result[p].ok
        /\ keys = RsaKeysOf(JwksMixed) /\ DOMAIN keys = {"C"}

NothingPulled == queue # << >> /\ Head(queue) = 1
\* C22: enqueue is always possible (it never waits for room); the queue
\* never holds more than QueueCap entries; an enqueue on a full queue leaves
\* the queue as it is and counts one drop, an enqueue with room appends; the
\* drop counter never decreases and equals the number of discarded entries;
\* with capacity 2, no worker pulling and no cancellation, 5 enqueues leave
\* 2 queued and 3 dropped.
C22_EnqueueNeverBlocks ==
    /\ [](offered < MaxEntries => ENABLED Enqueue)
    /\ [](Len(queue) <= QueueCap /\ dropped = Cardinality(lost))
    /\ []((offered = 5 /\ NothingPulled /\ lifecycle = "running") =>
             Len(queue) = 2 /\ dropped = 3)
    /\ [][/\ dropped' >= dropped
          /\ lost \subseteq lost'
          /\ (offered' # offered /\ Len(queue) >= QueueCap) =>
                queue' = queue /\ dropped' = dropped + 1 /\ lost' = lost \cup {offered'}
          /\ (offered' # offered /\ Len(queue) < QueueCap /\ lifecycle = "running") =>
                queue' = Append(queue, offered') /\ dropped' = dropped
      ]_vars
\* Five entries were offered to a running pipeline whose workers pulled
\* nothing: entries 1 and 2 are queued, 3, 4 and 5 were dropped and counted.
C22_Witness ==
    /\ offered = 5 /\ queue = <<1, 2>> /\ dropped = 3 /\ lost = {3, 4, 5}
    /\ lifecycle = "running" /\ \A w \in Workers : workers[w] = IdleWorker

\* C23: a batch whose write failed once or twice is still in flight and is
\* retried; a write that succeeds inserts each entry of the batch once and no
\* entry is ever inserted twice; a batch is given up only when a write fails
\* with the retries used up, and then its entries are counted as dropped and
\* the queue is left as it is; every write in flight ends.
C23_BatchPersistedOnceWithinRetryBudget ==
    /\ [](\A e \in DOMAIN sink : sink[e] <= 1)
    /\ [](\A w \in Workers : workers[w].attempts <= MaxRetries)
    /\ [][\A w \in Workers : (workers[w].writing /\ workers'[w] # workers[w]) =>
            LET b == workers[w].batch IN
            IF sink' # sink
            THEN /\ \A e \in DOMAIN sink :
                      sink'[e] = IF \E i \in 1..Len(b) : b[i] = e THEN 1 ELSE sink[e]
                 /\ workers'[w].batch = << >> /\ dropped' = dropped /\ queue' = queue
            ELSE IF workers[w].attempts < 2
            THEN workers'[w] = [workers[w] EXCEPT !.attempts = @ + 1]
            ELSE /\ workers'[w].batch = << >> /\ ~workers'[w].writing
                 /\ dropped' = dropped + Len(b) /\ queue' = queue
      ]_vars
    /\ \A w \in Workers : workers[w].writing ~> ~workers[w].writing
\* The one batch, entry 1, was inserted once by its third write attempt.
C23_Witness ==
    /\ offered = 1 /\ sink[1] = 1 /\ lost = {} /\ dropped = 0
    /\ \E w \in Workers : workers[w] = [batch |-> << >>, writing |-> FALSE, attempts |-> 2]

\* C24: after the cancellation signal an enqueue queues nothing; at the
\* deadline the entries still queued are dropped and counted; a worker's
\* batch leaves it only inserted or counted as dropped; when shutdown has
\* returned no worker holds a batch; and after the signal shutdown returns.
C24_ShutdownDrainsAndReturns ==
    /\ [](lifecycle = "stopped" => queue = << >> /\ \A w \in Workers : workers[w].batch = << >>)
    /\ [][/\ (lifecycle # "running" /\ offered' # offered) =>
                queue' = queue /\ dropped' = dropped + 1 /\ offered' \in lost'
          /\ (lifecycle = "stopping" /\ lifecycle' = "draining") =>
                queue' = << >> /\ dropped' = dropped + Len(queue)
                /\ \A i \in 1..Len(queue) : queue[i] \in lost'
          /\ \A w \in Workers : (workers[w].batch # << >> /\ workers'[w].batch = << >>) =>
                \A i \in 1..Len(workers[w].batch) :
                    LET e == workers[w].batch[i] IN sink'[e] = 1 \/ e \in lost'
          /\ lifecycle = "stopped" => lifecycle' = "stopped"
      ]_vars
    /\ (lifecycle = "stopping") ~> (lifecycle = "stopped")
\* Shutdown has returned: entry 1 was in flight at the signal and was
\* inserted, entries 2 and 3 were still queued at the deadline and counted.
C24_Witness ==
    /\ lifecycle = "stopped" /\ offered = 3 /\ sink[1] = 1 /\ sink[2] = 0 /\ sink[3] = 0
    /\ lost = {2, 3} /\ dropped = 2

\* How many entries the sink holds.
RECURSIVE Persisted(_)
Persisted(n) == IF n = 0 THEN 0 ELSE sink[n] + Persisted(n - 1)
\* C25: every entry handed to the pipeline is eventually inserted or counted
\* as dropped; none is both, none is inserted twice, the counter counts the
\* discarded entries; when the queue is empty and no worker holds a batch,
\* offered = inserted + dropped.
C25_EveryEntryWrittenOrDropped ==
    /\ [](\A e \in DOMAIN sink : sink[e] <= 1 /\ ~(sink[e] = 1 /\ e \in lost))
    /\ [](dropped = Cardinality(lost))
    /\ []((queue = << >> /\ \A w \in Workers : workers[w].batch = << >>) =>
             offered = Persisted(MaxEntries) + dropped)
    /\ \A e \in 1..MaxEntries : (offered >= e) ~> (sink[e] = 1 \/ e \in lost)
\* All entries were offered and the pipeline is quiet: some were inserted,
\* some dropped for a full queue, none is left.
C25_Witness ==
    /\ offered = MaxEntries /\ queue = << >> /\ \A w \in Workers : workers[w].batch = << >>
    /\ lifecycle = "running" /\ dropped = 2 /\ Persisted(MaxEntries) = MaxEntries - 2

\* What a caller's zero target holds after fn's result went through JSON.
JsonView(v) == Unmarshal(Marshal(v).data, ZeroTarget).val
\* C26: when Redis answers with a decodable value (hit), GetOrSet returns
\* nil without invoking fn and the target holds the decoded value; when the
\* key is missing, fn is invoked, once; the write GetOrSet makes is of the
\* result's JSON under the key with the client's TTL (it is in the cache
\* when Redis accepts it); GetOrSet then returns nil with the target holding
\* the result as JSON carries it; a returned call invokes nothing more.
C26_GetOrSetIsCacheAside ==
    [][\A p \in Callers :
        LET c == callers[p]
            d == callers'[p]
            cached == Unmarshal(cache.val, ZeroTarget)
        IN  /\ (c.pc = "get" /\ d.pc # "get" /\ cache # NoEntry /\ cached.err = "nil"
                    /\ d.getErr # "failed to get from Redis") =>
                  /\ d.pc = "done" /\ d.err = "nil" /\ d.fnCalls = 0
                  /\ d.target = cached.val /\ cache' = cache
            /\ (c.pc = "get" /\ d.pc # "get" /\ cache = NoEntry) => d.pc = "fn"
            /\ (c.pc = "fn" /\ d.pc # "fn") =>
                  c.fnCalls = 0 /\ d.fnCalls = 1 /\ cache' = cache
            /\ (c.pc = "set" /\ d.pc # "set") =>
                  /\ d.fnCalls = 1 /\ d.pc = "done"
                  /\ d.setErr = "nil" => cache' = [val |-> Marshal(c.result).data, ttl |-> ClientTTL]
                  /\ d.setErr # "nil" => cache' = cache
                  /\ d.err = "nil" => d.target = JsonView(c.result)
            /\ c.pc = "done" => d = c
      ]_vars
\* The first caller missed, loaded a value once and stored it with the
\* client's TTL; the second caller then hit and got that value without fn.
C26_Witness ==
    LET a == callers["c1"]
        b == callers["c2"]
    IN  /\ a.pc = "done" /\ a.getErr = "ErrCacheMiss" /\ a.fnCalls = 1 /\ a.err = "nil"
        /\ a.result.name = "b" /\ a.result.secret = 1 /\ a.target = JsonView(a.result)
        /\ cache = [val |-> Marshal(a.result).data, ttl |-> ClientTTL]
        /\ b.pc = "done" /\ b.getErr = "nil" /\ b.fnCalls = 0 /\ b.err = "nil"
        /\ b.target = a.target

\* The steps of the gateway's startup, in the order main takes them.
StartupOrder ==
    {<<"main", "loaded">>, <<"main", "panicked">>, <<"loaded", "migrated">>,
     <<"loaded", "exited">>, <<"migrated", "pooled">>, <<"migrated", "exited">>,
     <<"pooled", "built">>, <<"built", "listening">>}
\* C27: the gateway's startup goes config load, migrations, pool, route
\* setup, listen, each step only after the one before it has returned: the
\* pool is created only after the migrations have completed, routes exist
\* only after the pool, and requests are handled only by a listening server.
C27_MigrationsBeforePoolBeforeListen ==
    /\ [][boot' # boot => <<boot, boot'>> \in StartupOrder]_vars
    /\ [](cfg # NoConfig <=> boot \in {"loaded", "migrated", "pooled", "built", "listening", "exited"})
    /\ [](routes # {} => boot \in {"built", "listening"})
    /\ [](exchange # NoExchange => boot = "listening")
\* The gateway listens with its configuration loaded and GET /health
\* registered, and has answered a health request.
C27_Witness ==
    /\ boot = "listening" /\ cfg.DatabaseURL # "" /\ routes = {"GET /health"}
    /\ exchange.req.path = "/health" /\ exchange.status = 200

\* C28: a call ends with the failure of the first check its token fails, in
\* the order algorithm, kid, key resolution, signature, exp/nbf, issuer, and
\* with that failure alone: a non-RSA token ends with UnsupportedAlgorithm
\* before any key lookup; a token whose signature does not verify ends with
\* InvalidSignature whatever its times and issuer; Expired, NotYetValid and
\* InvalidIssuer are reported only for a token whose signature verified, and
\* InvalidIssuer only when its times passed as well.
C28_ChecksInFixedOrder ==
    [][\A p \in AllProcs : Finishes(p) =>
        LET t == tok[p]
            errs == result'[p].errs
            parsed == ~t.malformed
            rsa == parsed /\ t.alg \in {"RS256", "RS384", "RS512"}
            named == rsa /\ t.kid # NoKid
            resolved == named /\ key[p] # NoKey /\ pc[p] = "verify"
            signed == resolved /\ t.sig = key[p]
            timely == signed /\ ~(\E e \in t.exp : now >= e) /\ ~(\E n \in t.nbf : now < n)
        IN  /\ "UnsupportedAlgorithm" \in errs => parsed /\ ~rsa
            /\ "MissingKid" \in errs => rsa /\ ~named
            /\ "UnknownKey" \in errs => named /\ ~resolved
            /\ "InvalidSignature" \in errs => resolved /\ ~signed
            /\ errs \cap {"Expired", "NotYetValid"} # {} => signed /\ ~timely
            /\ "InvalidIssuer" \in errs => timely
            /\ (pc[p] = "parse" /\ parsed /\ ~rsa) =>
                  errs = {"UnsupportedAlgorithm"} /\ stats'[p].lookups = 0
            /\ (pc[p] = "parse" /\ rsa /\ ~named) =>
                  errs = {"MissingKid"} /\ stats'[p].lookups = 0
            /\ (resolved /\ ~signed) => errs = {"InvalidSignature"}
            /\ (signed /\ ~timely) => errs \subseteq {"Expired", "NotYetValid"} /\ errs # {}
      ]_vars
\* An expired token with a forged signature under a published kid was
\* rejected with InvalidSignature alone.
C28_Witness ==
    \E p \in AllProcs :
        /\ pc[p] = "done" /\ tok[p] = TokAExpiredForged
        /\ result[p].errs = {"InvalidSignature"} /\ key[p] = PubA

\* C29: every step that reads or writes v.keys or v.lastFetch is taken by a
\* call that holds v.mu (for reading or for writing), and no call reads
\* v.lastFetch while another call is between Lock and Unlock.
C29_SharedStateOnlyUnderLock ==
    [][\A p \in AllProcs :
          /\ (pc[p] = "idle" /\ pc'[p] # "idle") =>
                /\ p \in readers \/ writer = p
                /\ writer \in {None, p}
          /\ LooksUp(p) => p \in readers
          /\ (pc[p] \in {"setkeys", "setlast"} /\ pc'[p] # pc[p]) => writer = p
      ]_vars

\* The call has completed a refresh and still holds the response it fetched.
Refreshed(p) ==
    /\ jwks[p] # << >>
    /\ pc[p] \in {"parse", "rlock1", "lookup1", "rlock2", "lookup2", "verify", "done"}
\* The endpoint served this response at this position of its rotation.
ServedAt(body) == CHOOSE i \in 1..Len(RotationPlan) : RotationPlan[i] = body
\* C30: when two calls have both completed a refresh and one of them fetched
\* its response after the other (a later key list of the endpoint), the
\* key map is that of the response fetched later.
C30_LaterFetchWins ==
    \A p, q \in AllProcs :
        (Refreshed(p) /\ Refreshed(q) /\ ServedAt(jwks[p]) < ServedAt(jwks[q]))
            => keys = RsaKeysOf(jwks[q])

\* C31: a call issues at most one interval fetch and at most one on-miss
\* fetch; the interval fetch is issued only as the first step of the call,
\* before the token is parsed, the on-miss fetch only by the first lookup;
\* a call that starts with the interval elapsed (v.lastFetch zero or more
\* than the interval old) issues the interval fetch, and a first lookup
\* that misses issues the on-miss fetch.
C31_AtMostTwoFetchesPerCall ==
    [][\A p \in AllProcs :
          /\ stats'[p].interval <= 1 /\ stats'[p].miss <= 1
          /\ stats'[p].interval > stats[p].interval => pc[p] = "idle"
          /\ stats'[p].miss > stats[p].miss => pc[p] = "lookup1"
          /\ (pc[p] = "idle" /\ pc'[p] # "idle" /\ writer = None
                /\ (lastFetch = ZeroTime \/ now - lastFetch > RefreshInterval)) =>
                pc'[p] = "fetch" /\ stats'[p].interval = 1
          /\ (pc[p] = "lookup1" /\ pc'[p] # "lookup1" /\ tok[p].kid \notin DOMAIN keys) =>
                pc'[p] = "fetch" /\ stats'[p].miss = 1
      ]_vars
\* The first call after construction carried a kid the endpoint never
\* served: it fetched once for the interval, once for the miss, and ended
\* with UnknownKey.
C31_Witness ==
    \E p \in AllProcs :
        /\ pc[p] = "done" /\ result[p].errs = {"UnknownKey"}
        /\ stats[p].interval = 1 /\ stats[p].miss = 1 /\ stats[p].lookups = 2

\* C32: ValidateToken never panics: whatever non-empty JWKS URL the
\* validator was built with and whatever the token, no call is ended by a
\* run-time panic (every call that ends returns Claims or an error).
C32_ValidateTokenNeverPanics ==
    \A p \in AllProcs : pc[p] # "panic"

\* A response that carries an RSA key whose modulus or exponent is not
\* valid unpadded base64url.
HasUndecodableRsaKey(body) ==
    \E i \in 1..Len(body) :
        body[i].kty = "RSA" /\ ~(B64Valid(body[i].n) /\ B64Valid(body[i].e))
InRefresh(p) == pc[p] \in {"convert", "lock", "setkeys", "setlast"}

\* C33: a refresh whose response holds an RSA key with an undecodable
\* modulus or exponent fails as a whole: it never reaches the swap, every
\* step of it leaves v.keys and v.lastFetch as they were, and it ends the
\* call with the refresh error.
C33_UndecodableKeyFailsWholeRefresh ==
    [][\A p \in AllProcs :
          (InRefresh(p) /\ HasUndecodableRsaKey(jwks[p])) =>
              /\ keys' = keys
              /\ lastFetch' = lastFetch
              /\ pc'[p] \in {"convert", "done"}
              /\ pc'[p] = "done" =>
                    /\ ~result'[p].ok
                    /\ result'[p].errs \in {{"RefreshFailed"}, {"KeyNotFoundRefreshFailed"}}
      ]_vars
\* The interval refresh of a later call received C, a key with an
\* undecodable exponent, and A: C was converted, the refresh failed, and
\* the validator still holds the keys A and B of the fetch at time 0.
C33_Witness ==
    \E p \in AllProcs :
        /\ pc[p] = "done" /\ result[p].errs = {"RefreshFailed"}
        /\ jwks[p] = EdgePlan[3] /\ idx[p] = 2
        /\ DOMAIN newKeys[p] = {"C"}
        /\ keys = [k \in {"A", "B"} |-> IF k = "A" THEN PubA ELSE PubB]
        /\ lastFetch = 0 /\ now = 2

RECURSIVE Strip(_)
\* A big-endian magnitude without its leading zero bytes.
Strip(b) == IF b # <<>> /\ b[1] = 0 THEN Strip(Tail(b)) ELSE b

\* C37: every RSA key the conversion produces has as exponent the
\* big-endian unsigned integer of the decoded exponent bytes: the 64-bit
\* result is not negative and its magnitude is that of the bytes.
C37_ExponentIsUnsignedValueOfBytes ==
    [][\A p \in AllProcs :
          (pc[p] = "convert" /\ idx'[p] = idx[p] + 1 /\ newKeys'[p] # newKeys[p]) =>
              LET jwk == jwks[p][idx[p]]
                  E == newKeys'[p][jwk.kid].E
              IN  E[1] < 128 /\ Strip(E) = Strip(B64Bytes(jwk.e))
      ]_vars

\* C34: when fn returns an error, GetOrSet returns that error at once: the
\* step leaves the cache and the target as they were, and the call makes no
\* write afterwards; after a miss the target is still the caller's zero value.
C34_LoaderErrorReturnedNothingWritten ==
    /\ [][\A p \in Callers :
            LET c == callers[p]
                d == callers'[p]
            IN  /\ (c.pc = "fn" /\ d.fnCalls = c.fnCalls + 1 /\ d.err # "nil") =>
                      /\ d.pc = "done" /\ d.err = "db error"
                      /\ cache' = cache /\ d.target = c.target
                /\ (c.pc = "done" /\ c.fnCalls = 1 /\ c.err = "db error") => d = c
       ]_vars
    /\ [](\A p \in Callers :
            LET c == callers[p]
            IN  (c.pc = "done" /\ c.getErr = "ErrCacheMiss" /\ c.fnCalls = 1
                    /\ c.err = "db error") =>
                    c.target = ZeroTarget /\ c.setErr = "nil")
\* A caller missed on the empty cache, its loader failed, and the call
\* returned the loader's error with the cache still empty and the target
\* untouched.
C34_Witness ==
    \E p \in Callers :
        LET c == callers[p]
        IN  /\ c.pc = "done" /\ c.getErr = "ErrCacheMiss" /\ c.fnCalls = 1
            /\ c.err = "db error" /\ c.target = ZeroTarget /\ cache = NoEntry

\* C35 as stated: a failed Redis read and an undecodable cached value lead
\* to fn like a miss, and whenever fn has succeeded the call returns nil
\* with fn's result in the target, whatever became of the cache write.
C35_SucceedsWheneverFnSucceeds ==
    [][\A p \in Callers :
          LET c == callers[p]
              d == callers'[p]
          IN  /\ (c.pc = "get" /\ d.pc # "get" /\ d.getErr # "nil") => d.pc = "fn"
              /\ (c.pc = "set" /\ d.pc # "set") =>
                    d.pc = "done" /\ d.err = "nil" /\ d.target = JsonView(c.result)
      ]_vars
\* C35, amended: every error of c.Get (read failure, undecodable value, miss)
\* leads to fn; a write Redis refuses is ignored; the call returns nil, with
\* the result's JSON unmarshalled into the target, whenever fn succeeded and
\* its result can be marshalled and unmarshalled into the target; a result
\* json cannot marshal makes the call fail with "failed to marshal result",
\* target and cache untouched.
C35_FailsOpenOnCacheErrors ==
    [][\A p \in Callers :
          LET c == callers[p]
              d == callers'[p]
              m == Marshal(c.result)
          IN  /\ (c.pc = "get" /\ d.pc # "get" /\ d.getErr # "nil") =>
                    d.pc = "fn" /\ d.target = c.target /\ cache' = cache
              /\ (c.pc = "set" /\ d.pc # "set" /\ m.err = "nil"
                    /\ Unmarshal(m.data, c.target).err = "nil") =>
                    /\ d.pc = "done" /\ d.err = "nil"
                    /\ d.target = Unmarshal(m.data, c.target).val
                    /\ d.setErr # "nil" => cache' = cache
              /\ (c.pc = "set" /\ d.pc # "set" /\ m.err # "nil") =>
                    /\ d.pc = "done" /\ d.err = "failed to marshal result"
                    /\ d.setErr = "failed to marshal value"
                    /\ d.target = c.target /\ cache' = cache
      ]_vars
\* One caller found an undecodable value, the other a failed read; both
\* went on to fn, Redis refused both writes, and both calls returned nil
\* with their loader's value, the undecodable text still under the key.
C35_Witness ==
    LET a == callers["c1"]
        b == callers["c2"]
    IN  /\ a.pc = "done" /\ a.getErr = "failed to unmarshal Redis value"
        /\ b.pc = "done" /\ b.getErr = "failed to get from Redis"
        /\ a.fnCalls = 1 /\ b.fnCalls = 1
        /\ a.setErr = "failed to set in Redis" /\ b.setErr = "failed to set in Redis"
        /\ a.err = "nil" /\ b.err = "nil"
        /\ a.target.name = "a" /\ b.target.name = "b"
        /\ cache.val = <<"garbage">>

\* C36: concurrent misses are not coalesced: a caller that observes the
\* miss goes on to fn whatever the other callers are doing, its fn step is
\* its own (no other call is touched), and a write Redis accepts replaces
\* whatever another caller stored, so the cache holds the last write.
C36_ConcurrentMissesEachLoad ==
    /\ [][\A p \in Callers :
            LET c == callers[p]
                d == callers'[p]
            IN  /\ (c.pc = "get" /\ d.getErr = "ErrCacheMiss") => d.pc = "fn"
                /\ (c.pc = "fn" /\ d.pc # "fn") =>
                      /\ d.fnCalls = c.fnCalls + 1
                      /\ \A q \in Callers \ {p} : callers'[q] = callers[q]
                /\ (c.pc = "set" /\ d.pc # "set" /\ d.setErr = "nil") =>
                      cache' = [val |-> Marshal(c.result).data, ttl |-> ClientTTL]
       ]_vars
    /\ [](\A p \in Callers :
            (callers[p].pc \in {"set", "done"} /\ callers[p].getErr = "ErrCacheMiss") =>
                callers[p].fnCalls = 1)
\* Both callers missed before either had loaded; each invoked fn; c1 stored
\* "a" first, c2 stored "b" after it, and "b" is what the cache holds.
C36_Witness ==
    LET a == callers["c1"]
        b == callers["c2"]
    IN  /\ a.pc = "done" /\ b.pc = "done"
        /\ a.getErr = "ErrCacheMiss" /\ b.getErr = "ErrCacheMiss"
        /\ a.fnCalls = 1 /\ b.fnCalls = 1
        /\ a.setErr = "nil" /\ b.setErr = "nil"
        /\ a.result.name = "a" /\ b.result.name = "b"
        /\ cache = [val |-> <<"name", "b">>, ttl |-> ClientTTL]
====
